---- MODULE Spec2Model ----
(***************************************************************************)
(* A model of the BCn texture decoder of src/src/decode.rs: the top-level  *)
(* driver decode_rust, the decode_loop macro, the block assembler          *)
(* put_block / swizzle_copy and the per-variant block decoders.            *)
(*                                                                         *)
(* Byte arrays (&[u8], Vec<u8>) are sequences; the Rust index k is the     *)
(* sequence index k + 1 (operator At).                                     *)
(*                                                                         *)
(* TLC's integers are 32-bit, so the three places where the code holds a   *)
(* value of 32 bits or more are written in an equal form that stays below  *)
(* 2^31: a u32 is kept as two 16-bit halves (load_32) or as the sign,      *)
(* exponent and mantissa fields of an f32 (half_to_float), and the shifts  *)
(* of bc6_unquantize and bc6_lerp are distributed over their sums.  The    *)
(* image sizes of the model are far below the width of usize, so usize     *)
(* arithmetic is exact except where a subtraction goes below zero.         *)
(***************************************************************************)
EXTENDS Integers, Sequences, FiniteSets, TLC

(***************************************************************************)
(* Bounds of the model.                                                    *)
(***************************************************************************)
\* width and height range over 0..MaxDim
MaxDim == 8
\* the source holds 0..MaxSrcBlocks whole blocks ...
MaxSrcBlocks == 4
\* ... followed by 0..MaxExtra dangling bytes
MaxExtra == 1
\* number of source byte patterns tried for each image size
NumSeeds == 1

Encodings == {"Bc1", "Bc2", "Bc3", "Bc4", "Bc5", "Bc6H"}
Formats == {"RGBA", "BGRA", "ARGB", "ABGR", "LUM"}

(***************************************************************************)
(* Machine arithmetic.                                                     *)
(***************************************************************************)
Shr(v, n) == v \div (2 ^ n)

Shl(v, n) == v * (2 ^ n)

\* v & ((1 << n) - 1): the low n bits
LowBits(v, n) == v % (2 ^ n)

RECURSIVE BitAnd(_, _)
BitAnd(a, b) ==
  IF a = 0 \/ b = 0 THEN 0
  ELSE (IF a % 2 = 1 /\ b % 2 = 1 THEN 1 ELSE 0) + 2 * BitAnd(a \div 2, b \div 2)

RECURSIVE BitOr(_, _)
BitOr(a, b) ==
  IF a = 0 THEN b
  ELSE IF b = 0 THEN a
  ELSE (IF a % 2 = 1 \/ b % 2 = 1 THEN 1 ELSE 0) + 2 * BitOr(a \div 2, b \div 2)

\* the same sequence, with every element evaluated (TLC keeps a function
\* constructor unevaluated and would recompute an element at each use)
Eager(s) == s \o << >>

\* source[k] of a Rust slice
At(s, k) == s[k + 1]

\* &s[k..]
SliceFrom(s, k) == SubSeq(s, k + 1, Len(s))

\* [0; n]
Zeros(n) == Eager([k \in 1..n |-> 0])


(***************************************************************************)
(* Little-endian loads.                                                    *)
(***************************************************************************)
load_16(source) == BitOr(At(source, 0), Shl(At(source, 1), 8))

\* the u32 as its low and high 16-bit halves
load_32(source) ==
  [lo |-> BitOr(At(source, 0), Shl(At(source, 1), 8)),
   hi |-> BitOr(At(source, 2), Shl(At(source, 3), 8))]

\* v >> n of a u32 kept as halves, for the n the decoder uses (n even, so a
\* 2-bit field never straddles the halves), reduced to the low 16 bits
Shr32(v, n) == IF n < 16 THEN Shr(v.lo, n) ELSE Shr(v.hi, n - 16)

(***************************************************************************)
(* Element types: size_of::<T>() of the packed structs and the byte view   *)
(* to_byte_ptr gives of an array of them.                                  *)
(***************************************************************************)
SizeOfRGBA == 4

SizeOfLUM == 1

SizeOfRGB32f == 12

RGBADefault == [r |-> 0, g |-> 0, b |-> 0, a |-> 0]

\* to_byte_ptr of a [RGBA]: r, g, b, a of each element in turn
RGBABytes(col) ==
  Eager([k \in 1..(SizeOfRGBA * Len(col)) |->
     LET px == col[((k - 1) \div SizeOfRGBA) + 1]
         c  == (k - 1) % SizeOfRGBA
     IN  IF c = 0 THEN px.r ELSE IF c = 1 THEN px.g ELSE IF c = 2 THEN px.b ELSE px.a])

(***************************************************************************)
(* 565 colour unpack and the BC1 colour block.                             *)
(***************************************************************************)
\* decode_565 without the replication of the top bits of green
decode_565_GreenUnreplicated(x) ==
  LET r0 == Shr(BitAnd(x, 63488), 8)
      r  == BitOr(r0, Shr(r0, 5))
      g  == Shr(BitAnd(x, 2016), 3)
      b0 == Shl(BitAnd(x, 31), 3)
      b  == BitOr(b0, Shr(b0, 5))
  IN  [r |-> r % 256, g |-> g % 256, b |-> b % 256, a |-> 255]

decode_565(x) ==
  LET r0 == Shr(BitAnd(x, 63488), 8)
      r  == BitOr(r0, Shr(r0, 5))
      g0 == Shr(BitAnd(x, 2016), 3)
      g  == BitOr(g0, Shr(g0, 6))
      b0 == Shl(BitAnd(x, 31), 3)
      b  == BitOr(b0, Shr(b0, 5))
  IN  [r |-> r % 256, g |-> g % 256, b |-> b % 256, a |-> 255]

\* Bc1Palette taking the four-colour branch for c0 = c1 as well
Bc1Palette_EqualInterpolated(c0, c1) ==
  LET p0 == decode_565(c0)
      p1 == decode_565(c1)
  IN  IF c0 >= c1
      THEN << p0, p1,
              [r |-> ((2 * p0.r + 1 * p1.r) \div 3) % 256,
               g |-> ((2 * p0.g + 1 * p1.g) \div 3) % 256,
               b |-> ((2 * p0.b + 1 * p1.b) \div 3) % 256,
               a |-> 255],
              [r |-> ((1 * p0.r + 2 * p1.r) \div 3) % 256,
               g |-> ((1 * p0.g + 2 * p1.g) \div 3) % 256,
               b |-> ((1 * p0.b + 2 * p1.b) \div 3) % 256,
               a |-> 255] >>
      ELSE << p0, p1,
              [r |-> ((p0.r + p1.r) \div 2) % 256,
               g |-> ((p0.g + p1.g) \div 2) % 256,
               b |-> ((p0.b + p1.b) \div 2) % 256,
               a |-> 255],
              [r |-> 0, g |-> 0, b |-> 0, a |-> 0] >>

\* the palette p[0..3] of decode_bc1_color, as a sequence p[1..4]
Bc1Palette(c0, c1) ==
  LET p0 == decode_565(c0)
      p1 == decode_565(c1)
  IN  IF c0 > c1
      THEN << p0, p1,
              [r |-> ((2 * p0.r + 1 * p1.r) \div 3) % 256,
               g |-> ((2 * p0.g + 1 * p1.g) \div 3) % 256,
               b |-> ((2 * p0.b + 1 * p1.b) \div 3) % 256,
               a |-> 255],
              [r |-> ((1 * p0.r + 2 * p1.r) \div 3) % 256,
               g |-> ((1 * p0.g + 2 * p1.g) \div 3) % 256,
               b |-> ((1 * p0.b + 2 * p1.b) \div 3) % 256,
               a |-> 255] >>
      ELSE << p0, p1,
              [r |-> ((p0.r + p1.r) \div 2) % 256,
               g |-> ((p0.g + p1.g) \div 2) % 256,
               b |-> ((p0.b + p1.b) \div 2) % 256,
               a |-> 255],
              [r |-> 0, g |-> 0, b |-> 0, a |-> 0] >>

\* decode_bc1_color: the 16 RGBA pixels of an 8-byte colour block
decode_bc1_color(source) ==
  LET c0  == load_16(source)
      c1  == load_16(SliceFrom(source, 2))
      lut == load_32(SliceFrom(source, 4))
      p   == Bc1Palette(c0, c1)
  IN  Eager([n \in 1..16 |-> p[BitAnd(3, Shr32(lut, 2 * (n - 1))) + 1]])

(***************************************************************************)
(* BC3 alpha block.                                                        *)
(***************************************************************************)
\* Bc3AlphaPalette taking the eight-value branch for a0 = a1 as well
Bc3AlphaPalette_EqualInterpolated(a0, a1) ==
  IF a0 >= a1
  THEN << a0 % 256, a1 % 256,
          ((6 * a0 + 1 * a1) \div 7) % 256,
          ((5 * a0 + 2 * a1) \div 7) % 256,
          ((4 * a0 + 3 * a1) \div 7) % 256,
          ((3 * a0 + 4 * a1) \div 7) % 256,
          ((2 * a0 + 5 * a1) \div 7) % 256,
          ((1 * a0 + 6 * a1) \div 7) % 256 >>
  ELSE << a0 % 256, a1 % 256,
          ((4 * a0 + 1 * a1) \div 5) % 256,
          ((3 * a0 + 2 * a1) \div 5) % 256,
          ((2 * a0 + 3 * a1) \div 5) % 256,
          ((1 * a0 + 4 * a1) \div 5) % 256,
          0, 255 >>

\* the palette a[0..7] of decode_bc3_alpha, as a sequence a[1..8]
Bc3AlphaPalette(a0, a1) ==
  IF a0 > a1
  THEN << a0 % 256, a1 % 256,
          ((6 * a0 + 1 * a1) \div 7) % 256,
          ((5 * a0 + 2 * a1) \div 7) % 256,
          ((4 * a0 + 3 * a1) \div 7) % 256,
          ((3 * a0 + 4 * a1) \div 7) % 256,
          ((2 * a0 + 5 * a1) \div 7) % 256,
          ((1 * a0 + 6 * a1) \div 7) % 256 >>
  ELSE << a0 % 256, a1 % 256,
          ((4 * a0 + 1 * a1) \div 5) % 256,
          ((3 * a0 + 2 * a1) \div 5) % 256,
          ((2 * a0 + 3 * a1) \div 5) % 256,
          ((1 * a0 + 4 * a1) \div 5) % 256,
          0, 255 >>

\* decode_bc3_alpha reading the indices of pixels 8..15 from the first half
decode_bc3_alpha_FirstHalfTwice(dst, source, stride, o) ==
  LET a    == Bc3AlphaPalette(At(source, 0), At(source, 1))
      lut0 == BitOr(BitOr(At(source, 2), Shl(At(source, 3), 8)), Shl(At(source, 4), 16))
  IN  Eager([k \in 1..Len(dst) |->
         IF (k - 1) % stride = o /\ (k - 1) \div stride < 16
         THEN LET n == (k - 1) \div stride
              IN  a[BitAnd(7, Shr(lut0, 3 * (n % 8))) + 1]
         ELSE dst[k]])

\* decode_bc3_alpha clearing the bytes of dst it does not store to
decode_bc3_alpha_RestCleared(dst, source, stride, o) ==
  LET a    == Bc3AlphaPalette(At(source, 0), At(source, 1))
      lut0 == BitOr(BitOr(At(source, 2), Shl(At(source, 3), 8)), Shl(At(source, 4), 16))
      lut1 == BitOr(BitOr(At(source, 5), Shl(At(source, 6), 8)), Shl(At(source, 7), 16))
  IN  Eager([k \in 1..Len(dst) |->
         IF (k - 1) % stride = o /\ (k - 1) \div stride < 16
         THEN LET n == (k - 1) \div stride
              IN  IF n < 8
                  THEN a[BitAnd(7, Shr(lut0, 3 * n)) + 1]
                  ELSE a[BitAnd(7, Shr(lut1, 3 * (n - 8))) + 1]
         ELSE 0])

\* decode_bc3_alpha: dst[stride * n + o] for n in 0..15, all other bytes kept
decode_bc3_alpha(dst, source, stride, o) ==
  LET a    == Bc3AlphaPalette(At(source, 0), At(source, 1))
      lut0 == BitOr(BitOr(At(source, 2), Shl(At(source, 3), 8)), Shl(At(source, 4), 16))
      lut1 == BitOr(BitOr(At(source, 5), Shl(At(source, 6), 8)), Shl(At(source, 7), 16))
  IN  Eager([k \in 1..Len(dst) |->
         IF (k - 1) % stride = o /\ (k - 1) \div stride < 16
         THEN LET n == (k - 1) \div stride
              IN  IF n < 8
                  THEN a[BitAnd(7, Shr(lut0, 3 * n)) + 1]
                  ELSE a[BitAnd(7, Shr(lut1, 3 * (n - 8))) + 1]
         ELSE dst[k]])

(***************************************************************************)
(* Block decoders for BC1 .. BC5; each returns the byte view of col.       *)
(***************************************************************************)
decode_bc1_block(source) == RGBABytes(decode_bc1_color(source))

\* decode_bc2_block reading the high nibble of each alpha byte first
decode_bc2_block_HighNibbleFirst(source) ==
  LET col == decode_bc1_color(SliceFrom(source, 8))
  IN  RGBABytes(Eager([n \in 1..16 |->
        LET bit_i == (n - 1) * 4
            by_i  == Shr(bit_i, 3)
            av0   == BitAnd(15, Shr(At(source, by_i), 4 - (bit_i % 8)))
            av    == BitOr(Shl(av0, 4) % 256, av0)
        IN  [col[n] EXCEPT !.a = av]]))

decode_bc2_block(source) ==
  LET col == decode_bc1_color(SliceFrom(source, 8))
  IN  RGBABytes(Eager([n \in 1..16 |->
        LET bit_i == (n - 1) * 4
            by_i  == Shr(bit_i, 3)
            av0   == BitAnd(15, Shr(At(source, by_i), bit_i % 8))
            av    == BitOr(Shl(av0, 4) % 256, av0)
        IN  [col[n] EXCEPT !.a = av]]))

decode_bc3_block(source) ==
  decode_bc3_alpha(RGBABytes(decode_bc1_color(SliceFrom(source, 8))), source, SizeOfRGBA, 3)

decode_bc4_block(source) ==
  decode_bc3_alpha(Zeros(16 * SizeOfLUM), source, SizeOfLUM, 0)

decode_bc5_block(source) ==
  decode_bc3_alpha(
    decode_bc3_alpha(Zeros(16 * SizeOfRGBA), source, SizeOfRGBA, 0),
    SliceFrom(source, 8), SizeOfRGBA, 1)

(***************************************************************************)
(* Bit reader.                                                             *)
(***************************************************************************)
get_bit(src, bit) ==
  LET by    == Shr(bit, 3)
      bit_m == bit % 8
  IN  LowBits(Shr(At(src, by), bit_m), 1)

\* the u8 expression (1 << count) - 1 of the one-byte branch: the shift
\* amount of a u8 is taken modulo 8 when overflow checks are off
U8Mask(count) == ((2 ^ (count % 8)) - 1) % 256

get_bits(src, bit, count) ==
  LET by   == Shr(bit, 3)
      bit_ == bit % 8
  IN  IF count = 0 THEN 0
      ELSE IF bit_ + count <= 8
      THEN BitAnd(Shr(At(src, by), bit_), U8Mask(count))
      ELSE LET x == BitOr(At(src, by), Shl(At(src, by + 1), 8))
           IN  LowBits(Shr(x, bit_), count) % 256

\* the byte indices get_bits reads
get_bits_reads(bit, count) ==
  IF count = 0 THEN {}
  ELSE IF (bit % 8) + count <= 8 THEN {Shr(bit, 3)}
  ELSE {Shr(bit, 3), Shr(bit, 3) + 1}

(***************************************************************************)
(* BC6H tables.                                                            *)
(***************************************************************************)
Bc6ModeInfo(mode) ==
  CASE mode = 0  -> [ns |-> 2, tr |-> 1, pb |-> 5, epb |-> 10, rb |-> 5,  gb |-> 5,  bb |-> 5]
    [] mode = 1  -> [ns |-> 2, tr |-> 1, pb |-> 5, epb |-> 7,  rb |-> 6,  gb |-> 6,  bb |-> 6]
    [] mode = 2  -> [ns |-> 2, tr |-> 1, pb |-> 5, epb |-> 11, rb |-> 5,  gb |-> 4,  bb |-> 4]
    [] mode = 3  -> [ns |-> 2, tr |-> 1, pb |-> 5, epb |-> 11, rb |-> 4,  gb |-> 5,  bb |-> 4]
    [] mode = 4  -> [ns |-> 2, tr |-> 1, pb |-> 5, epb |-> 11, rb |-> 4,  gb |-> 4,  bb |-> 5]
    [] mode = 5  -> [ns |-> 2, tr |-> 1, pb |-> 5, epb |-> 9,  rb |-> 5,  gb |-> 5,  bb |-> 5]
    [] mode = 6  -> [ns |-> 2, tr |-> 1, pb |-> 5, epb |-> 8,  rb |-> 6,  gb |-> 5,  bb |-> 5]
    [] mode = 7  -> [ns |-> 2, tr |-> 1, pb |-> 5, epb |-> 8,  rb |-> 5,  gb |-> 6,  bb |-> 5]
    [] mode = 8  -> [ns |-> 2, tr |-> 1, pb |-> 5, epb |-> 8,  rb |-> 5,  gb |-> 5,  bb |-> 6]
    [] mode = 9  -> [ns |-> 2, tr |-> 0, pb |-> 5, epb |-> 6,  rb |-> 6,  gb |-> 6,  bb |-> 6]
    [] mode = 10 -> [ns |-> 1, tr |-> 0, pb |-> 0, epb |-> 10, rb |-> 10, gb |-> 10, bb |-> 10]
    [] mode = 11 -> [ns |-> 1, tr |-> 1, pb |-> 0, epb |-> 11, rb |-> 9,  gb |-> 9,  bb |-> 9]
    [] mode = 12 -> [ns |-> 1, tr |-> 1, pb |-> 0, epb |-> 12, rb |-> 8,  gb |-> 8,  bb |-> 8]
    [] mode = 13 -> [ns |-> 1, tr |-> 1, pb |-> 0, epb |-> 16, rb |-> 4,  gb |-> 4,  bb |-> 4]
    [] OTHER     -> [ns |-> 0, tr |-> 0, pb |-> 0, epb |-> 0,  rb |-> 0,  gb |-> 0,  bb |-> 0]

BC7_WEIGHTS2 == << 0, 21, 43, 64 >>

BC7_WEIGHTS3 == << 0, 9, 18, 27, 37, 46, 55, 64 >>

BC7_WEIGHTS4 == << 0, 4, 9, 13, 17, 21, 26, 30, 34, 38, 43, 47, 51, 55, 60, 64 >>

bc7_get_weights(n) ==
  IF n = 2 THEN BC7_WEIGHTS2 ELSE IF n = 3 THEN BC7_WEIGHTS3 ELSE BC7_WEIGHTS4

\* rows are modes 0..13, columns the 75 packed-bit descriptors
BC6_BIT_PACKINGS ==
       << << 116, 132, 176, 0, 1, 2, 3, 4, 5, 6, 7, 8, 9, 16, 17, 18, 19, 20, 21, 22, 23, 24,
        25, 32, 33, 34, 35, 36, 37, 38, 39, 40, 41, 48, 49, 50, 51, 52, 164, 112, 113, 114, 115,
        64, 65, 66, 67, 68, 172, 160, 161, 162, 163, 80, 81, 82, 83, 84, 173, 128, 129, 130,
        131, 96, 97, 98, 99, 100, 174, 144, 145, 146, 147, 148, 175 >>,
          << 117, 164, 165, 0, 1, 2, 3, 4, 5, 6, 172, 173, 132, 16, 17, 18, 19, 20, 21, 22, 133,
        174, 116, 32, 33, 34, 35, 36, 37, 38, 175, 177, 176, 48, 49, 50, 51, 52, 53, 112, 113,
        114, 115, 64, 65, 66, 67, 68, 69, 160, 161, 162, 163, 80, 81, 82, 83, 84, 85, 128, 129,
        130, 131, 96, 97, 98, 99, 100, 101, 144, 145, 146, 147, 148, 149 >>,
          << 0, 1, 2, 3, 4, 5, 6, 7, 8, 9, 16, 17, 18, 19, 20, 21, 22, 23, 24, 25, 32, 33, 34,
        35, 36, 37, 38, 39, 40, 41, 48, 49, 50, 51, 52, 10, 112, 113, 114, 115, 64, 65, 66, 67,
        26, 172, 160, 161, 162, 163, 80, 81, 82, 83, 42, 173, 128, 129, 130, 131, 96, 97, 98,
        99, 100, 174, 144, 145, 146, 147, 148, 175, 0, 0, 0 >>,
          << 0, 1, 2, 3, 4, 5, 6, 7, 8, 9, 16, 17, 18, 19, 20, 21, 22, 23, 24, 25, 32, 33, 34,
        35, 36, 37, 38, 39, 40, 41, 48, 49, 50, 51, 10, 164, 112, 113, 114, 115, 64, 65, 66, 67,
        68, 26, 160, 161, 162, 163, 80, 81, 82, 83, 42, 173, 128, 129, 130, 131, 96, 97, 98, 99,
        172, 174, 144, 145, 146, 147, 116, 175, 0, 0, 0 >>,
          << 0, 1, 2, 3, 4, 5, 6, 7, 8, 9, 16, 17, 18, 19, 20, 21, 22, 23, 24, 25, 32, 33, 34,
        35, 36, 37, 38, 39, 40, 41, 48, 49, 50, 51, 10, 132, 112, 113, 114, 115, 64, 65, 66, 67,
        26, 172, 160, 161, 162, 163, 80, 81, 82, 83, 84, 42, 128, 129, 130, 131, 96, 97, 98, 99,
        173, 174, 144, 145, 146, 147, 176, 175, 0, 0, 0 >>,
          << 0, 1, 2, 3, 4, 5, 6, 7, 8, 132, 16, 17, 18, 19, 20, 21, 22, 23, 24, 116, 32, 33,
        34, 35, 36, 37, 38, 39, 40, 176, 48, 49, 50, 51, 52, 164, 112, 113, 114, 115, 64, 65,
        66, 67, 68, 172, 160, 161, 162, 163, 80, 81, 82, 83, 84, 173, 128, 129, 130, 131, 96,
        97, 98, 99, 100, 174, 144, 145, 146, 147, 148, 175, 0, 0, 0 >>,
          << 0, 1, 2, 3, 4, 5, 6, 7, 164, 132, 16, 17, 18, 19, 20, 21, 22, 23, 174, 116, 32, 33,
        34, 35, 36, 37, 38, 39, 175, 176, 48, 49, 50, 51, 52, 53, 112, 113, 114, 115, 64, 65,
        66, 67, 68, 172, 160, 161, 162, 163, 80, 81, 82, 83, 84, 173, 128, 129, 130, 131, 96,
        97, 98, 99, 100, 101, 144, 145, 146, 147, 148, 149, 0, 0, 0 >>,
          << 0, 1, 2, 3, 4, 5, 6, 7, 172, 132, 16, 17, 18, 19, 20, 21, 22, 23, 117, 116, 32, 33,
        34, 35, 36, 37, 38, 39, 165, 176, 48, 49, 50, 51, 52, 164, 112, 113, 114, 115, 64, 65,
        66, 67, 68, 69, 160, 161, 162, 163, 80, 81, 82, 83, 84, 173, 128, 129, 130, 131, 96, 97,
        98, 99, 100, 174, 144, 145, 146, 147, 148, 175, 0, 0, 0 >>,
          << 0, 1, 2, 3, 4, 5, 6, 7, 173, 132, 16, 17, 18, 19, 20, 21, 22, 23, 133, 116, 32, 33,
        34, 35, 36, 37, 38, 39, 177, 176, 48, 49, 50, 51, 52, 164, 112, 113, 114, 115, 64, 65,
        66, 67, 68, 172, 160, 161, 162, 163, 80, 81, 82, 83, 84, 85, 128, 129, 130, 131, 96, 97,
        98, 99, 100, 174, 144, 145, 146, 147, 148, 175, 0, 0, 0 >>,
          << 0, 1, 2, 3, 4, 5, 164, 172, 173, 132, 16, 17, 18, 19, 20, 21, 117, 133, 174, 116,
        32, 33, 34, 35, 36, 37, 165, 175, 177, 176, 48, 49, 50, 51, 52, 53, 112, 113, 114, 115,
        64, 65, 66, 67, 68, 69, 160, 161, 162, 163, 80, 81, 82, 83, 84, 85, 128, 129, 130, 131,
        96, 97, 98, 99, 100, 101, 144, 145, 146, 147, 148, 149, 0, 0, 0 >>,
          << 0, 1, 2, 3, 4, 5, 6, 7, 8, 9, 16, 17, 18, 19, 20, 21, 22, 23, 24, 25, 32, 33, 34,
        35, 36, 37, 38, 39, 40, 41, 48, 49, 50, 51, 52, 53, 54, 55, 56, 57, 64, 65, 66, 67, 68,
        69, 70, 71, 72, 73, 80, 81, 82, 83, 84, 85, 86, 87, 88, 89, 0, 0, 0, 0, 0, 0, 0, 0, 0,
        0, 0, 0, 0, 0, 0 >>,
          << 0, 1, 2, 3, 4, 5, 6, 7, 8, 9, 16, 17, 18, 19, 20, 21, 22, 23, 24, 25, 32, 33, 34,
        35, 36, 37, 38, 39, 40, 41, 48, 49, 50, 51, 52, 53, 54, 55, 56, 10, 64, 65, 66, 67, 68,
        69, 70, 71, 72, 26, 80, 81, 82, 83, 84, 85, 86, 87, 88, 42, 0, 0, 0, 0, 0, 0, 0, 0, 0,
        0, 0, 0, 0, 0, 0 >>,
          << 0, 1, 2, 3, 4, 5, 6, 7, 8, 9, 16, 17, 18, 19, 20, 21, 22, 23, 24, 25, 32, 33, 34,
        35, 36, 37, 38, 39, 40, 41, 48, 49, 50, 51, 52, 53, 54, 55, 11, 10, 64, 65, 66, 67, 68,
        69, 70, 71, 27, 26, 80, 81, 82, 83, 84, 85, 86, 87, 43, 42, 0, 0, 0, 0, 0, 0, 0, 0, 0,
        0, 0, 0, 0, 0, 0 >>,
          << 0, 1, 2, 3, 4, 5, 6, 7, 8, 9, 16, 17, 18, 19, 20, 21, 22, 23, 24, 25, 32, 33, 34,
        35, 36, 37, 38, 39, 40, 41, 48, 49, 50, 51, 15, 14, 13, 12, 11, 10, 64, 65, 66, 67, 31,
        30, 29, 28, 27, 26, 80, 81, 82, 83, 47, 46, 45, 44, 43, 42, 0, 0, 0, 0, 0, 0, 0, 0, 0,
        0, 0, 0, 0, 0, 0 >> >>

BC7_SI2 ==
  << 52428, 34952, 61166, 60616, 51328, 65260, 65224, 60544, 51200, 65516, 65152, 59392, 65512,
     65280, 65520, 61440, 63248, 142, 28928, 2254, 140, 29456, 12544, 36046, 2188, 12560, 26214,
     13932, 6120, 4080, 29070, 14748, 43690, 61680, 23130, 13260, 15420, 21930, 38550, 42330,
     29646, 5064, 12876, 15324, 27030, 49980, 39270, 1632, 626, 1252, 20032, 10016, 51510,
     37740, 14790, 25500, 37686, 40134, 33150, 59160, 52464, 4044, 30532, 60962 >>

\* each u32 entry as its low and high 16-bit halves
BC7_SI3 ==
  << [lo |-> 20560, hi |-> 43624], [lo |-> 20544, hi |-> 27226], [lo |-> 16896, hi |-> 23130],
     [lo |-> 41128, hi |-> 21584], [lo |-> 0, hi |-> 42405], [lo |-> 20560, hi |-> 41120],
     [lo |-> 41120, hi |-> 21845], [lo |-> 20560, hi |-> 23130], [lo |-> 0, hi |-> 43605],
     [lo |-> 21760, hi |-> 43605], [lo |-> 21760, hi |-> 43690], [lo |-> 37008, hi |-> 37008],
     [lo |-> 38036, hi |-> 38036], [lo |-> 42148, hi |-> 42148], [lo |-> 37968, hi |-> 43429],
     [lo |-> 16976, hi |-> 10762], [lo |-> 20544, hi |-> 42388], [lo |-> 20564, hi |-> 2626],
     [lo |-> 42240, hi |-> 42405], [lo |-> 41120, hi |-> 21920], [lo |-> 21588, hi |-> 43176],
     [lo |-> 16448, hi |-> 27242], [lo |-> 20480, hi |-> 42148], [lo |-> 1280, hi |-> 6682],
     [lo |-> 42148, hi |-> 80], [lo |-> 37008, hi |-> 43685], [lo |-> 26900, hi |-> 5225],
     [lo |-> 5120, hi |-> 26985], [lo |-> 34208, hi |-> 41093], [lo |-> 5140, hi |-> 43650],
     [lo |-> 42064, hi |-> 20644], [lo |-> 512, hi |-> 27226], [lo |-> 32768, hi |-> 43429],
     [lo |-> 41128, hi |-> 20624], [lo |-> 36944, hi |-> 43168], [lo |-> 9252, hi |-> 9252],
     [lo |-> 21760, hi |-> 170], [lo |-> 18724, hi |-> 9362], [lo |-> 37412, hi |-> 9289],
     [lo |-> 2640, hi |-> 20645], [lo |-> 42320, hi |-> 20490], [lo |-> 17476, hi |-> 43690],
     [lo |-> 0, hi |-> 26214], [lo |-> 42400, hi |-> 42400], [lo |-> 20640, hi |-> 20640],
     [lo |-> 26920, hi |-> 26920], [lo |-> 43588, hi |-> 17578], [lo |-> 26112, hi |-> 26214],
     [lo |-> 17476, hi |-> 43588], [lo |-> 21672, hi |-> 21672], [lo |-> 38272, hi |-> 38272],
     [lo |-> 38400, hi |-> 38550], [lo |-> 21672, hi |-> 43092], [lo |-> 38272, hi |-> 32917],
     [lo |-> 5140, hi |-> 43540], [lo |-> 0, hi |-> 38550], [lo |-> 5140, hi |-> 43690],
     [lo |-> 20640, hi |-> 41040], [lo |-> 42400, hi |-> 41125], [lo |-> 0, hi |-> 38400],
     [lo |-> 16512, hi |-> 16512], [lo |-> 43432, hi |-> 43432], [lo |-> 43588, hi |-> 43690],
     [lo |-> 21076, hi |-> 10826] >>

BC7_AI0 ==
  << 15, 15, 15, 15, 15, 15, 15, 15, 15, 15, 15, 15, 15, 15, 15, 15, 15, 2, 8, 2, 2, 8, 8, 15,
     2, 8, 2, 2, 8, 8, 2, 2, 15, 15, 6, 8, 2, 8, 15, 15, 2, 8, 2, 2, 2, 15, 15, 6, 6, 2, 6, 8,
     15, 15, 2, 2, 15, 15, 15, 15, 15, 2, 2, 15 >>

bc7_get_subset(ns, partition, n) ==
  IF ns = 2 THEN LowBits(Shr(At(BC7_SI2, partition), n), 1)
  ELSE IF ns = 3 THEN LowBits(Shr32(At(BC7_SI3, partition), 2 * n), 2)
  ELSE 0

(***************************************************************************)
(* BC6H endpoint arithmetic.                                               *)
(***************************************************************************)
\* x |= -1 << prec on an isize, then "as u16"
bc6_sign_extend(v, prec) ==
  IF BitAnd(v, Shl(1, prec - 1)) > 0
  THEN BitOr(v, (IF prec < 16 THEN 65536 - Shl(1, prec) ELSE 0))
  ELSE v

\* ((x << 15) + 0x4000) >> (prec - 1) for 1 <= prec <= 15: both summands are
\* multiples of 2^(prec-1), so the shift distributes
Unq(x, prec) == Shl(x, 16 - prec) + Shl(1, 15 - prec)

\* v is a u16; "v as isize" zero-extends it, so x is never negative
bc6_unquantize(v, prec, sign) ==
  IF ~sign
  THEN IF prec >= 15 THEN v
       ELSE IF v = 0 THEN 0
       ELSE IF v = Shl(1, prec) - 1 THEN 65535
       ELSE Unq(v, prec)
  ELSE IF prec >= 16 THEN v
       ELSE LET s  == IF v < 0 THEN 1 ELSE 0
                x0 == IF v < 0 THEN -v ELSE v
                x1 == IF x0 # 0
                      THEN IF x0 >= Shl(1, prec - 1) - 1 THEN 32767
                           ELSE Unq(x0, prec)
                      ELSE x0
            IN  IF s # 0 THEN -x1 ELSE x1

\* Rust integer division truncates towards zero
TruncDiv(a, b) == IF a >= 0 THEN a \div b ELSE -((-a) \div b)

\* "as u16" of an isize
AsU16(v) == v % 65536

(***************************************************************************)
(* half_to_float.  An f32 bit pattern is kept as its fields [sign, exp,    *)
(* man] (1, 8 and 23 bits).  o.f *= m.f with m = 0x77800000 = 2^112 is     *)
(* exact for every o = (h & 0x7fff) << 13: a subnormal o (half exponent 0) *)
(* becomes a normal float and a normal o has 112 added to its exponent.    *)
(***************************************************************************)
RECURSIVE TopBit(_)
TopBit(v) == IF v <= 1 THEN 0 ELSE 1 + TopBit(v \div 2)

\* the f32 with bit pattern (h & 0x7fff) << 13, times 2^112
F32TimesMagic(e, m) ==
  IF e = 0
  THEN IF m = 0 THEN [sign |-> 0, exp |-> 0, man |-> 0]
       ELSE LET p == TopBit(m)
            IN  [sign |-> 0, exp |-> p - 149 + 112 + 127, man |-> Shl(m - Shl(1, p), 23 - p)]
  ELSE [sign |-> 0, exp |-> e + 112, man |-> m]

half_to_float(h) ==
  LET h15 == LowBits(h, 15)
      o1  == F32TimesMagic(Shr(h15, 10), Shl(LowBits(h15, 10), 13))
      \* o.f >= m.f with m = 0x47800000 (exp 143, man 0); both are non-negative
      o2  == IF o1.exp >= 143 THEN [o1 EXCEPT !.exp = BitOr(@, 255)] ELSE o1
  IN  [o2 EXCEPT !.sign = Shr(h, 15) % 2]

\* the four little-endian bytes of an f32
F32Bytes(f) ==
  << f.man % 256, Shr(f.man, 8) % 256, Shr(f.man, 16) + Shl(f.exp % 2, 7),
     Shr(f.exp, 1) + Shl(f.sign, 7) >>

bc6_finalize(v, sign) ==
  IF sign
  THEN IF v < 0
       THEN half_to_float(AsU16(BitOr(32768, TruncDiv((-v) * 31, 32))))
       ELSE half_to_float(AsU16(TruncDiv(v * 31, 32)))
  ELSE half_to_float(AsU16(TruncDiv(v * 31, 64)))

\* (a * t + b * s) >> 6 with the multiples of 64 in a and b taken out first
Lerp6(a, b, t, s) ==
  ((a \div 64) * t) + ((b \div 64) * s) + ((((a % 64) * t) + ((b % 64) * s)) \div 64)

\* bc6_lerp: the r, g, b of one pixel; e0 and e1 are slices of ueps
bc6_lerp(e0, e1, s, sign) ==
  LET t == 64 - s
  IN  [r |-> bc6_finalize(Lerp6(At(e0, 0), At(e1, 0), t, s), sign),
       g |-> bc6_finalize(Lerp6(At(e0, 1), At(e1, 1), t, s), sign),
       b |-> bc6_finalize(Lerp6(At(e0, 2), At(e1, 2), t, s), sign)]

\* to_byte_ptr of a [RGB32f]: three little-endian f32 per element
RECURSIVE RGB32fBytes(_)
RGB32fBytes(col) ==
  IF col = << >> THEN << >>
  ELSE F32Bytes(Head(col).r) \o F32Bytes(Head(col).g) \o F32Bytes(Head(col).b)
         \o RGB32fBytes(Tail(col))


(***************************************************************************)
(* decode_bc6h_block.                                                      *)
(***************************************************************************)
\* Bc6hHeader taking only two bits above the low two for the mode
Bc6hHeader_TwoBitField(source) ==
  LET mode == LowBits(At(source, 0), 5)
  IN  IF LowBits(mode, 2) = 0 \/ LowBits(mode, 2) = 1
      THEN [mode |-> LowBits(mode, 2), bit |-> 2, epbits |-> 75, ib |-> 3]
      ELSE IF LowBits(mode, 2) = 2
      THEN [mode |-> 2 + (Shr(mode, 2) % 4), bit |-> 5, epbits |-> 72, ib |-> 3]
      ELSE [mode |-> 10 + (Shr(mode, 2) % 4), bit |-> 5, epbits |-> 60, ib |-> 4]

\* mode prefix: the mode, the first endpoint bit, the number of endpoint
\* bits and the index width
Bc6hHeader(source) ==
  LET mode == LowBits(At(source, 0), 5)
  IN  IF LowBits(mode, 2) = 0 \/ LowBits(mode, 2) = 1
      THEN [mode |-> LowBits(mode, 2), bit |-> 2, epbits |-> 75, ib |-> 3]
      ELSE IF LowBits(mode, 2) = 2
      THEN [mode |-> 2 + Shr(mode, 2), bit |-> 5, epbits |-> 72, ib |-> 3]
      ELSE [mode |-> 10 + Shr(mode, 2), bit |-> 5, epbits |-> 60, ib |-> 4]

\* Bc6hInvalid taking mode 14 for a valid mode
Bc6hInvalid_From15(mode) == mode >= 15

\* if mode >= 14 { return; }: an invalid block
Bc6hInvalid(mode) == mode >= 14

Bc6hNumEp(info) == IF info.ns = 2 THEN 12 ELSE 6

\* the (word, bit) pairs the unpacking loop sets: it ORs source bit bit + i
\* into bit di of endpoints[dw] for every descriptor i < epbits
Bc6hSetBits(source, mode, bit, epbits) ==
  { << Shr(At(At(BC6_BIT_PACKINGS, mode), i), 4), LowBits(At(At(BC6_BIT_PACKINGS, mode), i), 4) >> :
      i \in { k \in 0..(epbits - 1) :
                AsU16(Shl(get_bit(source, bit + k),
                          LowBits(At(At(BC6_BIT_PACKINGS, mode), k), 4))) # 0 } }

\* the array endpoints after the unpacking loop: the OR of the bits set
Bc6hUnpack(source, mode, bit, epbits) ==
  LET setbits == Bc6hSetBits(source, mode, bit, epbits)
      word(dw) ==
        LET v(b) == IF << dw, b >> \in setbits THEN Shl(1, b) ELSE 0
        IN  v(0) + v(1) + v(2) + v(3) + v(4) + v(5) + v(6) + v(7)
              + v(8) + v(9) + v(10) + v(11) + v(12) + v(13) + v(14) + v(15)
  IN  Eager([k \in 1..12 |-> word(k - 1)])

\* sign extension of endpoints 1.. (words 3..numep-1) from rb, gb, bb
Bc6hExtendDeltas(endpoints, info) ==
  Eager([k \in 1..12 |->
     IF k - 1 >= 3 /\ k - 1 < Bc6hNumEp(info)
     THEN bc6_sign_extend(endpoints[k],
            IF (k - 1) % 3 = 0 THEN info.rb ELSE IF (k - 1) % 3 = 1 THEN info.gb ELSE info.bb)
     ELSE endpoints[k]])

\* the endpoint words when the delta application is reached, from the
\* unpacked words e0
Bc6hBeforeDeltas(e0, info, sign) ==
  LET e1 == IF sign
            THEN Eager([k \in 1..12 |->
                          IF k <= 3 THEN bc6_sign_extend(e0[k], info.epb) ELSE e0[k]])
            ELSE e0
  IN  IF sign \/ info.tr > 0 THEN Bc6hExtendDeltas(e1, info) ELSE e1

\* the delta application and the second sign extension, from the words e2
\* that reach it
Bc6hAfterDeltas(e2, info, sign) ==
  LET mask == AsU16(Shl(1, info.epb) - 1)
      e3   == IF info.tr > 0
              THEN Eager([k \in 1..12 |->
                            IF k - 1 >= 3 /\ k - 1 < Bc6hNumEp(info)
                            THEN AsU16(BitAnd(e2[k] + e2[1], mask))
                            ELSE e2[k]])
              ELSE e2
  IN  IF info.tr > 0 /\ sign THEN Bc6hExtendDeltas(e3, info) ELSE e3

\* the endpoint words after sign extension and delta application
Bc6hEndpoints(source, hdr, info, sign) ==
  Bc6hAfterDeltas(
    Bc6hBeforeDeltas(Bc6hUnpack(source, hdr.mode, hdr.bit, hdr.epbits), info, sign),
    info, sign)

\* Bc6hIndexWidth giving the anchor pixel of the second subset all ib bits
Bc6hIndexWidth_AnchorFull(info, partition, ib, i) ==
  IF i = 0 THEN ib - 1 ELSE ib

\* the width ib2 of the weight index of pixel i
Bc6hIndexWidth(info, partition, ib, i) ==
  IF i = 0 THEN ib - 1
  ELSE IF info.ns = 2
  THEN IF i = At(BC7_AI0, partition) THEN ib - 1 ELSE ib
  ELSE ib

\* the value of bit when the loop reaches pixel i
RECURSIVE Bc6hIndexBit(_, _, _, _, _)
Bc6hIndexBit(info, partition, ib, bit0, i) ==
  IF i = 0 THEN bit0
  ELSE Bc6hIndexBit(info, partition, ib, bit0, i - 1)
         + Bc6hIndexWidth(info, partition, ib, i - 1)

\* the values of bit at the 16 pixels, as a sequence
Bc6hIndexBits(info, partition, ib, bit0) ==
  Eager([n \in 1..16 |-> Bc6hIndexBit(info, partition, ib, bit0, n - 1)])

\* partition = get_bits(source, bit, pb) after the endpoint bits
Bc6hPartition(source, hdr, info) == get_bits(source, hdr.bit + hdr.epbits, info.pb)

\* the byte indices of source the block decoder reads
Bc6hReads(source) ==
  LET hdr == Bc6hHeader(source)
  IN  IF Bc6hInvalid(hdr.mode) THEN {0}
      ELSE LET info == Bc6ModeInfo(hdr.mode)
               pbit == hdr.bit + hdr.epbits
           IN  {0}
               \cup { Shr(hdr.bit + i, 3) : i \in 0..(hdr.epbits - 1) }
               \cup get_bits_reads(pbit, info.pb)
               \cup (IF \A r \in get_bits_reads(pbit, info.pb) : r < Len(source)
                     THEN LET partition == Bc6hPartition(source, hdr, info)
                              bits      == Bc6hIndexBits(info, partition, hdr.ib, pbit + info.pb)
                          IN  IF info.ns = 2 /\ partition >= Len(BC7_AI0) THEN {}
                              ELSE UNION { get_bits_reads(At(bits, i),
                                     Bc6hIndexWidth(info, partition, hdr.ib, i)) : i \in 0..15 }
                     ELSE {})

\* an array or table index of the block decoder is out of range
Bc6hIndexFault(source) ==
  LET hdr == Bc6hHeader(source)
  IN  IF Bc6hInvalid(hdr.mode) THEN FALSE
      ELSE LET info      == Bc6ModeInfo(hdr.mode)
               cw        == bc7_get_weights(hdr.ib)
               partition == Bc6hPartition(source, hdr, info)
               bit0      == hdr.bit + hdr.epbits + info.pb
               bits      == Bc6hIndexBits(info, partition, hdr.ib, bit0)
           IN  \/ hdr.mode >= Len(BC6_BIT_PACKINGS)
               \/ \E i \in 0..(hdr.epbits - 1) :
                    \/ i >= Len(At(BC6_BIT_PACKINGS, hdr.mode))
                    \/ Shr(At(At(BC6_BIT_PACKINGS, hdr.mode), i), 4) >= 12
               \/ info.ns = 2 /\ partition >= Len(BC7_SI2)
               \/ info.ns = 2 /\ partition >= Len(BC7_AI0)
               \/ \E i \in 0..15 :
                    LET s  == bc7_get_subset(info.ns, partition, i) * 6
                        i0 == get_bits(source, At(bits, i),
                                Bc6hIndexWidth(info, partition, hdr.ib, i))
                    IN  \/ i0 >= Len(cw)
                        \/ s + 3 + 2 >= 12

\* the byte view of col after decode_bc6h_block; col starts as 16 default
\* (all-zero) RGB32f and an invalid mode leaves it so
decode_bc6h_block(source, sign) ==
  LET hdr == Bc6hHeader(source)
  IN  IF Bc6hInvalid(hdr.mode) THEN Zeros(16 * SizeOfRGB32f)
      ELSE LET info      == Bc6ModeInfo(hdr.mode)
               cw        == bc7_get_weights(hdr.ib)
               partition == Bc6hPartition(source, hdr, info)
               bit0      == hdr.bit + hdr.epbits + info.pb
               bits      == Bc6hIndexBits(info, partition, hdr.ib, bit0)
           IN  LET endpoints == Bc6hEndpoints(source, hdr, info, sign)
                   ueps == Eager([k \in 1..12 |->
                              IF k - 1 < Bc6hNumEp(info)
                              THEN bc6_unquantize(endpoints[k], info.epb, sign)
                              ELSE 0])
               IN  RGB32fBytes(Eager([n \in 1..16 |->
                     LET i  == n - 1
                         s  == bc7_get_subset(info.ns, partition, i) * 6
                         i0 == get_bits(source, At(bits, i),
                                 Bc6hIndexWidth(info, partition, hdr.ib, i))
                     IN  bc6_lerp(SliceFrom(ueps, s), SliceFrom(ueps, s + 3), At(cw, i0), sign)]))


\* the locals of decode_bc6h_block when it returns; start is the first
\* endpoint bit, bit the position after the last weight index.  An index out
\* of range panics: the locals are then those of the mode prefix.
Bc6hLocals(source, sign) ==
  LET hdr   == Bc6hHeader(source)
      reads == Bc6hReads(source)
      fault == (\E r \in reads : r >= Len(source)) \/ Bc6hIndexFault(source)
      top   == [mode |-> hdr.mode, start |-> hdr.bit, epbits |-> hdr.epbits, ib |-> hdr.ib,
                reads |-> reads, panic |-> fault]
  IN  IF fault \/ Bc6hInvalid(hdr.mode)
      THEN top @@ [unpacked |-> Zeros(12), extended |-> Zeros(12), endpoints |-> Zeros(12),
                   partition |-> 0, bit |-> hdr.bit]
      ELSE LET info      == Bc6ModeInfo(hdr.mode)
               partition == Bc6hPartition(source, hdr, info)
               bit0      == hdr.bit + hdr.epbits + info.pb
               e0        == Bc6hUnpack(source, hdr.mode, hdr.bit, hdr.epbits)
               e2        == Bc6hBeforeDeltas(e0, info, sign)
           IN  top @@ [unpacked  |-> e0,
                       extended  |-> e2,
                       endpoints |-> Bc6hAfterDeltas(e2, info, sign),
                       partition |-> partition,
                       bit       |-> Bc6hIndexBit(info, partition, hdr.ib, bit0, 16)]

(***************************************************************************)
(* decode_bcn: the block size, element type and block decoder the          *)
(* decode_loop macro is instantiated with for each encoding.               *)
(***************************************************************************)
\* BlockBytes with the loop of Bc2 stepping by 8 bytes
BlockBytes_Bc2Half(enc) == IF enc \in {"Bc1", "Bc2", "Bc4"} THEN 8 ELSE 16

BlockBytes(enc) == IF enc \in {"Bc1", "Bc4"} THEN 8 ELSE 16

ElemSize(enc) ==
  IF enc = "Bc4" THEN SizeOfLUM ELSE IF enc = "Bc6H" THEN SizeOfRGB32f ELSE SizeOfRGBA

\* byte view of col after $decode_fn(&mut col, &$source[source_ptr..])
DecodeBlock(enc, src, sgn) ==
  CASE enc = "Bc1"  -> decode_bc1_block(src)
    [] enc = "Bc2"  -> decode_bc2_block(src)
    [] enc = "Bc3"  -> decode_bc3_block(src)
    [] enc = "Bc4"  -> decode_bc4_block(src)
    [] enc = "Bc5"  -> decode_bc5_block(src)
    [] enc = "Bc6H" -> decode_bc6h_block(src, sgn)

\* the indices of the slice the block decoder reads
BlockReads(enc, src) ==
  CASE enc \in {"Bc1", "Bc4"}        -> 0..7
    [] enc \in {"Bc2", "Bc3", "Bc5"} -> 0..15
    [] enc = "Bc6H"                  -> Bc6hReads(src)

\* the block decoder panics: a slice read or a table index out of range
DecodeFault(enc, src) ==
  \/ \E r \in BlockReads(enc, src) : r >= Len(src)
  \/ enc = "Bc6H" /\ Bc6hIndexFault(src)

(***************************************************************************)
(* swizzle_copy, as the bytes it stores: a function from the absolute      *)
(* destination index to the byte stored there.  dst_off and src_off are    *)
(* the offsets at which the caller slices state.buffer and col.            *)
(***************************************************************************)
CopyBytes(dst_start, col, src_start, n) ==
  [d \in dst_start..(dst_start + n - 1) |-> At(col, src_start + (d - dst_start))]

\* later stores win over earlier ones
Overlay(later, earlier) == later @@ earlier

swizzle_copy(swz, dst_off, col, src_off, block_size) ==
  IF swz = 0 \/ swz = 228
  THEN CopyBytes(dst_off, col, src_off, block_size)
  ELSE LET c  == Shr(block_size, 2)
           s0 == c * BitAnd(swz, 3)
           s1 == c * Shr(BitAnd(swz, 12), 2)
           s2 == c * Shr(BitAnd(swz, 48), 4)
           s3 == c * Shr(BitAnd(swz, 192), 6)
       IN  Overlay(CopyBytes(dst_off + s3, col, src_off + 3 * c, c),
           Overlay(CopyBytes(dst_off + s2, col, src_off + 2 * c, c),
           Overlay(CopyBytes(dst_off + s1, col, src_off + c, c),
                   CopyBytes(dst_off + s0, col, src_off, c))))

\* swizzle_copy, or the slicing of its arguments, indexes out of range
SwizzleFault(swz, dst_len, dst_off, col_len, src_off, block_size) ==
  \/ dst_off > dst_len
  \/ src_off > col_len
  \/ IF swz = 0 \/ swz = 228
     THEN block_size > dst_len - dst_off \/ block_size > col_len - src_off
     ELSE LET c == Shr(block_size, 2)
          IN  \/ 4 * c > col_len - src_off
              \/ \E k \in 0..3 : c * (Shr(swz, 2 * k) % 4) + c > dst_len - dst_off

(***************************************************************************)
(* put_block.  PutOps is the sequence of swizzle_copy calls one block      *)
(* makes, in the order of the j and i loops: dst and src are the offsets   *)
(* into state.buffer and col, n = j*4+i the pixel of the block.            *)
(***************************************************************************)
\* PutOp without the row flip of y_step < 0
PutOp_NoFlip(w, h, bx, by, ystep, block_size, flp, j, i) ==
  LET y0 == by + j
  IN  IF flp
      THEN [dst  |-> (block_size * w * y0) + block_size * (bx + i),
            src  |-> block_size * (j * 4 + i),
            n    |-> j * 4 + i,
            skip |-> y0 >= h \/ bx + i >= w,
            underflow |-> FALSE]
      ELSE [dst  |-> ((block_size * w * y0) + block_size * bx) + i * block_size,
            src  |-> block_size * (j * 4) + i * block_size,
            n    |-> j * 4 + i,
            skip |-> FALSE,
            underflow |-> FALSE]

PutOp(w, h, bx, by, ystep, block_size, flp, j, i) ==
  LET y0 == by + j
      yy == IF ystep < 0 THEN h - y0 - 1 ELSE y0
  IN  IF flp
      THEN [dst  |-> (block_size * w * yy) + block_size * (bx + i),
            src  |-> block_size * (j * 4 + i),
            n    |-> j * 4 + i,
            skip |-> y0 >= h \/ bx + i >= w,
            underflow |-> FALSE]
      ELSE [dst  |-> ((block_size * w * yy) + block_size * bx) + i * block_size,
            src  |-> block_size * (j * 4) + i * block_size,
            n    |-> j * 4 + i,
            skip |-> FALSE,
            \* ymax - y - 1 below zero: a panic with overflow checks, a
            \* huge index (and the panic of the slicing) without
            underflow |-> yy < 0]

PutOps(w, h, bx, by, ystep, block_size, flp) ==
  SelectSeq([k \in 1..16 |->
               PutOp(w, h, bx, by, ystep, block_size, flp, (k - 1) \div 4, (k - 1) % 4)],
            LAMBDA op : ~op.skip)

PutFault(ops, swz, dst_len, col_len, block_size) ==
  \E k \in 1..Len(ops) :
     \/ ops[k].underflow
     \/ SwizzleFault(swz, dst_len, ops[k].dst, col_len, ops[k].src, block_size)

\* all bytes one put_block stores
RECURSIVE PutBytes(_, _, _, _, _)
PutBytes(ops, k, swz, col, block_size) ==
  IF k = 0 THEN << >>
  ELSE Overlay(swizzle_copy(swz, ops[k].dst, col, ops[k].src, block_size),
               PutBytes(ops, k - 1, swz, col, block_size))

\* state.buffer after the stores
StoreBytes(buf, stores) ==
  Eager([k \in 1..Len(buf) |-> IF (k - 1) \in DOMAIN stores THEN stores[k - 1] ELSE buf[k]])

\* NextX returning to column 0 only once the cursor is beyond xmax
NextX_Beyond(w, bx) == IF bx + 4 > w THEN 0 ELSE bx + 4

\* the cursor after put_block
NextX(w, bx) == IF bx + 4 >= w THEN 0 ELSE bx + 4

\* NextY starting a new band only once the cursor is beyond xmax
NextY_Beyond(w, bx, by) == IF bx + 4 > w THEN by + 4 ELSE by

NextY(w, bx, by) == IF bx + 4 >= w THEN by + 4 ELSE by

\* LoopBreak breaking only once the cursor is beyond y_max
LoopBreak_Beyond(y_new, y_max) == y_new > y_max

\* decode_loop: if $state.y >= y_max { break; }
LoopBreak(y_new, y_max) == y_new >= y_max

(***************************************************************************)
(* decode_rust: destination size and swizzle.                              *)
(***************************************************************************)
\* DstSize without the shift of the Bc4 arm
DstSize_Bc4Unshifted(w, h, enc) ==
  LET dst_size == 4 * w * h
  IN  IF enc = "Bc6H" THEN Shl(dst_size, 2) ELSE dst_size

DstSize(w, h, enc) ==
  LET dst_size == 4 * w * h
  IN  IF enc = "Bc4" THEN Shr(dst_size, 2)
      ELSE IF enc = "Bc6H" THEN Shl(dst_size, 2)
      ELSE dst_size

SwizzleOf(fmt) ==
  CASE fmt = "RGBA" -> 228
    [] fmt = "BGRA" -> 198
    [] fmt = "ARGB" -> 147
    [] fmt = "ABGR" -> 27
    [] fmt = "LUM"  -> 0

(***************************************************************************)
(* decode_rust as a function of its arguments: the buffer it returns, or   *)
(* the name of the error, or "panic".  decode_loop is the while loop, st   *)
(* holding state.buffer, state.x, state.y, source_ptr and bytes.           *)
(***************************************************************************)
RECURSIVE decode_loop(_, _, _, _, _, _, _, _)
decode_loop(st, src, w, h, enc, swz, ystep, flp) ==
  IF st.bytes < BlockBytes(enc) THEN st.buffer
  ELSE LET blk == SliceFrom(src, st.source_ptr)
           esz == ElemSize(enc)
       IN  IF DecodeFault(enc, blk) THEN "panic"
           ELSE LET col == DecodeBlock(enc, blk, FALSE)
                    ops == PutOps(w, h, st.x, st.y, ystep, esz, flp)
                IN  IF PutFault(ops, swz, Len(st.buffer), Len(col), esz) THEN "panic"
                    ELSE LET buf == StoreBytes(st.buffer,
                                               PutBytes(ops, Len(ops), swz, col, esz))
                         IN  IF LoopBreak(NextY(w, st.x, st.y), h) THEN buf
                             ELSE decode_loop(
                                    [buffer |-> buf,
                                     x |-> NextX(w, st.x),
                                     y |-> NextY(w, st.x, st.y),
                                     source_ptr |-> st.source_ptr + BlockBytes(enc),
                                     bytes |-> st.bytes - BlockBytes(enc)],
                                    src, w, h, enc, swz, ystep, flp)

decode_rust(src, w, h, enc, fmt) ==
  IF w = 0 \/ h = 0 THEN "InvalidImageSize"
  ELSE IF fmt = "LUM" /\ enc # "Bc4" THEN "InvalidPixelFormat"
  ELSE LET st0 == [buffer |-> Zeros(DstSize(w, h, enc)), x |-> 0, y |-> 0,
                   source_ptr |-> 0, bytes |-> Len(src)]
       IN  IF BitOr(BitAnd(w, 3), BitAnd(h, 3)) # 0
           THEN decode_loop(st0, src, w, h, enc, SwizzleOf(fmt), -1, TRUE)
           ELSE decode_loop(st0, src, w, h, enc, SwizzleOf(fmt), 1, FALSE)

(***************************************************************************)
(* Source byte patterns.                                                   *)
(***************************************************************************)
SourceByte(seed, i) ==
  ((205 * i * i) + (178 * i) + (133 * seed * (i + 1)) + (116 * (i \div 16)) + 58
     + ((i \div 8) * seed)) % 256

GenSource(len, seed) == Eager([k \in 1..len |-> SourceByte(seed, k - 1)])

\* the pattern of a source: a different one for every image size
PatternOf(seed, w, h) == seed + w + (MaxDim + 1) * h

(***************************************************************************)
(* State.                                                                  *)
(***************************************************************************)
VARIABLES
  pc,          \* position in decode_rust
  source, width, height, encoding, format,   \* the arguments
  buffer, x, y, y_step, sign, swizzle,       \* BcnDecoderState
  flip,        \* the flip argument of decode_bcn and put_block
  bytes, source_ptr,                         \* locals of decode_loop
  result,      \* "none" while running, then "Ok", an error kind or "panic"
  allocated,   \* vec![0; dst_size] has been executed
  placed,      \* history: the swizzle_copy calls made so far, each with its
               \* destination offset dst, block pixel n, cursor (bx, by),
               \* block number blk and the number cnt of bytes it stored
  read_end,    \* history: 1 + the highest source index read so far
  probe        \* a single call of one function: its argument and its result

vars == << pc, source, width, height, encoding, format, buffer, x, y, y_step, sign,
           swizzle, flip, bytes, source_ptr, result, allocated, placed, read_end,
           probe >>

\* no single call is being made
NoProbe == [arg |-> << >>, out |-> << >>]

args == << source, width, height, encoding, format >>

Init ==
  /\ pc = "entry"
  /\ width \in 0..MaxDim
  /\ height \in 0..MaxDim
  /\ encoding \in Encodings
  /\ format \in Formats
  /\ \E nb \in 0..MaxSrcBlocks, extra \in 0..MaxExtra, seed \in 0..(NumSeeds - 1) :
       source = GenSource(nb * BlockBytes(encoding) + extra, PatternOf(seed, width, height))
  \* BcnDecoderState::default() is built after the size check; until then
  \* the fields hold the default values
  /\ buffer = << >>
  /\ x = 0
  /\ y = 0
  /\ y_step = 0
  /\ sign = FALSE
  /\ swizzle = 0
  /\ flip = FALSE
  /\ bytes = 0
  /\ source_ptr = 0
  /\ result = "none"
  /\ allocated = FALSE
  /\ placed = << >>
  /\ read_end = 0
  /\ probe = NoProbe

\* CheckSize rejecting only when both dimensions are zero
CheckSize_BothZero ==
  /\ pc = "entry"
  /\ IF width = 0 /\ height = 0
     THEN pc' = "done" /\ result' = "InvalidImageSize"
     ELSE pc' = "alloc" /\ result' = result
  /\ UNCHANGED << probe, args, buffer, x, y, y_step, sign, swizzle, flip, bytes, source_ptr,
                  allocated, placed, read_end >>

\* if width == 0 || height == 0 { return Err(InvalidImageSize) }
CheckSize ==
  /\ pc = "entry"
  /\ IF width = 0 \/ height = 0
     THEN pc' = "done" /\ result' = "InvalidImageSize"
     ELSE pc' = "alloc" /\ result' = result
  /\ UNCHANGED << probe, args, buffer, x, y, y_step, sign, swizzle, flip, bytes, source_ptr,
                  allocated, placed, read_end >>

\* Allocate creating the state of a BC6H decode with the sign flag set
Allocate_Bc6hSigned ==
  /\ pc = "alloc"
  /\ buffer' = Zeros(DstSize(width, height, encoding))
  /\ allocated' = TRUE
  /\ sign' = (encoding = "Bc6H")
  /\ pc' = "format"
  /\ UNCHANGED << probe, args, x, y, y_step, swizzle, flip, bytes, source_ptr, result,
                  placed, read_end >>

\* dst_size, BcnDecoderState::default(), state.buffer = vec![0; dst_size]
Allocate ==
  /\ pc = "alloc"
  /\ buffer' = Zeros(DstSize(width, height, encoding))
  /\ allocated' = TRUE
  /\ pc' = "format"
  /\ UNCHANGED << probe, args, x, y, y_step, sign, swizzle, flip, bytes, source_ptr, result,
                  placed, read_end >>

\* SetSwizzle rejecting LUM for every encoding
SetSwizzle_LumRejected ==
  /\ pc = "format"
  /\ IF format = "LUM"
     THEN pc' = "done" /\ result' = "InvalidPixelFormat" /\ swizzle' = swizzle
     ELSE pc' = "dispatch" /\ result' = result /\ swizzle' = SwizzleOf(format)
  /\ UNCHANGED << probe, args, buffer, x, y, y_step, sign, flip, bytes, source_ptr,
                  allocated, placed, read_end >>

\* match format { ... }
SetSwizzle ==
  /\ pc = "format"
  /\ IF format = "LUM" /\ encoding # "Bc4"
     THEN pc' = "done" /\ result' = "InvalidPixelFormat" /\ swizzle' = swizzle
     ELSE pc' = "dispatch" /\ result' = result /\ swizzle' = SwizzleOf(format)
  /\ UNCHANGED << probe, args, buffer, x, y, y_step, sign, flip, bytes, source_ptr,
                  allocated, placed, read_end >>

\* the y_step / flip choice and the entry of decode_loop
Dispatch ==
  /\ pc = "dispatch"
  /\ IF BitOr(BitAnd(width, 3), BitAnd(height, 3)) # 0
     THEN y_step' = -1 /\ flip' = TRUE
     ELSE y_step' = 1 /\ flip' = FALSE
  /\ bytes' = Len(source)
  /\ source_ptr' = 0
  /\ pc' = "loop"
  /\ UNCHANGED << probe, args, buffer, x, y, sign, swizzle, result, allocated, placed, read_end >>

Panic ==
  /\ pc' = "done"
  /\ result' = "panic"
  /\ UNCHANGED << probe, args, buffer, x, y, y_step, sign, swizzle, flip, bytes, source_ptr,
                  allocated, placed, read_end >>

\* one iteration of the while loop of decode_loop
DecodeStep ==
  /\ pc = "loop"
  /\ bytes >= BlockBytes(encoding)
  /\ LET src == SliceFrom(source, source_ptr)
         esz == ElemSize(encoding)
     IN  IF DecodeFault(encoding, src)
         THEN Panic
         ELSE \E col \in {DecodeBlock(encoding, src, sign)} :
              \E ops \in {PutOps(width, height, x, y, y_step, esz, flip)} :
                IF PutFault(ops, swizzle, Len(buffer), Len(col), esz)
                THEN Panic
                ELSE /\ buffer' = StoreBytes(buffer, PutBytes(ops, Len(ops), swizzle, col, esz))
                     /\ x' = NextX(width, x)
                     /\ y' = NextY(width, x, y)
                     /\ source_ptr' = source_ptr + BlockBytes(encoding)
                     /\ bytes' = bytes - BlockBytes(encoding)
                     /\ pc' = IF LoopBreak(NextY(width, x, y), height) THEN "return" ELSE "loop"
                     /\ placed' = placed \o
                          [k \in 1..Len(ops) |->
                             [dst |-> ops[k].dst, n |-> ops[k].n, bx |-> x, by |-> y,
                              blk |-> source_ptr \div BlockBytes(encoding),
                              cnt |-> Cardinality(DOMAIN
                                        swizzle_copy(swizzle, ops[k].dst, col,
                                                     ops[k].src, esz))]]
                     /\ read_end' =
                          LET rs == BlockReads(encoding, src)
                              hi == CHOOSE r \in rs : \A q \in rs : q <= r
                          IN  IF source_ptr + hi + 1 > read_end
                              THEN source_ptr + hi + 1 ELSE read_end
                     /\ UNCHANGED << probe, args, y_step, sign, swizzle, flip, result, allocated >>

\* the while condition fails: fewer than one block of source is left
SourceExhausted ==
  /\ pc = "loop"
  /\ bytes < BlockBytes(encoding)
  /\ pc' = "return"
  /\ UNCHANGED << probe, args, buffer, x, y, y_step, sign, swizzle, flip, bytes, source_ptr,
                  result, allocated, placed, read_end >>

\* Ok(state.buffer)
Return ==
  /\ pc = "return"
  /\ result' = "Ok"
  /\ pc' = "done"
  /\ UNCHANGED << probe, args, buffer, x, y, y_step, sign, swizzle, flip, bytes, source_ptr,
                  allocated, placed, read_end >>

Next ==
  \/ CheckSize
  \/ Allocate
  \/ SetSwizzle
  \/ Dispatch
  \/ DecodeStep
  \/ SourceExhausted
  \/ Return

Spec == Init /\ [][Next]_vars

(***************************************************************************)
(* Single calls of the pure functions.  Each specification below draws    *)
(* the argument of one function from a set, and its one action makes the   *)
(* call; the variables of decode_rust stay at their initial values.        *)
(***************************************************************************)
\* no decode_rust call is in progress
Idle ==
  /\ source = << >> /\ width = 0 /\ height = 0
  /\ encoding = "Bc1" /\ format = "RGBA"
  /\ buffer = << >> /\ x = 0 /\ y = 0 /\ y_step = 0
  /\ sign = FALSE /\ swizzle = 0 /\ flip = FALSE
  /\ bytes = 0 /\ source_ptr = 0
  /\ result = "none" /\ allocated = FALSE
  /\ placed = << >> /\ read_end = 0

\* the largest u16
U16Max == 65535

\* decode_565(x) for every x: u16
Init565 ==
  /\ Idle
  /\ pc = "call"
  /\ \E v \in 0..U16Max : probe = [arg |-> v, out |-> << >>]

Call565 ==
  /\ pc = "call"
  /\ probe' = [probe EXCEPT !.out = decode_565(probe.arg)]
  /\ pc' = "ret"
  /\ UNCHANGED << args, buffer, x, y, y_step, sign, swizzle, flip, bytes, source_ptr,
                  result, allocated, placed, read_end >>

Spec565 == Init565 /\ [][Call565]_vars

\* 565 words for the endpoints of a colour block: the extremes, the pure
\* channels, and words whose channels interpolate with a remainder
ColourWords == {0, 31, 2016, 63488, 65535, 4660, 33808, 43981, 21845, 1, 2081, 65534}

\* bytes of the index table: 27 and 228 hold the indices 3,2,1,0 and 0,1,2,3
\* from the low bits up, 147 holds 3,0,1,2
LutBytes == {27, 228, 147}

\* the 8 bytes of a BC1 colour block: c0, c1 little-endian, then the table
ColourBlock(c0, c1, l0, l1, l2, l3) ==
  << c0 % 256, c0 \div 256, c1 % 256, c1 \div 256, l0, l1, l2, l3 >>

\* decode_bc1_color(dst, source) for 8-byte colour blocks
InitBc1 ==
  /\ Idle
  /\ pc = "call"
  /\ \E c0 \in ColourWords, c1 \in ColourWords,
        l0 \in LutBytes, l1 \in LutBytes, l2 \in LutBytes, l3 \in LutBytes :
       probe = [arg |-> ColourBlock(c0, c1, l0, l1, l2, l3), out |-> << >>]

CallBc1 ==
  /\ pc = "call"
  /\ probe' = [probe EXCEPT !.out = decode_bc1_color(probe.arg)]
  /\ pc' = "ret"
  /\ UNCHANGED << args, buffer, x, y, y_step, sign, swizzle, flip, bytes, source_ptr,
                  result, allocated, placed, read_end >>

SpecBc1 == InitBc1 /\ [][CallBc1]_vars

\* first bytes and steps of the 8 alpha bytes of a BC2 block; first byte 16
\* with step 34 gives the nibbles 0, 1, .., 15 in pixel order
AlphaStarts == {0, 16, 165, 255}
AlphaSteps == {0, 17, 34, 73}

AlphaBytes(first, step) == [j \in 1..8 |-> (first + step * (j - 1)) % 256] \o << >>

\* decode_bc2_block(col, source) for 16-byte blocks
InitBc2 ==
  /\ Idle
  /\ pc = "call"
  /\ \E first \in AlphaStarts, step \in AlphaSteps,
        c0 \in ColourWords, c1 \in ColourWords, l \in LutBytes :
       probe = [arg |-> AlphaBytes(first, step) \o ColourBlock(c0, c1, l, l, l, l),
                out |-> << >>]

CallBc2 ==
  /\ pc = "call"
  /\ probe' = [probe EXCEPT !.out = decode_bc2_block(probe.arg)]
  /\ pc' = "ret"
  /\ UNCHANGED << args, buffer, x, y, y_step, sign, swizzle, flip, bytes, source_ptr,
                  result, allocated, placed, read_end >>

SpecBc2 == InitBc2 /\ [][CallBc2]_vars

\* the largest u8
U8Max == 255

\* three bytes holding the 3-bit indices 0, 1, .., 7 from the low bits up,
\* and three bytes holding 7, 6, .., 0
LutUp == << 136, 198, 250 >>
LutDown == << 119, 57, 5 >>

\* index tables with the stride and offset of a caller: the alpha of BC3
\* (decode_bc3_block), BC4 (decode_bc4_block), the red of BC5 (decode_bc5_block)
AlphaCalls ==
  { [lut |-> LutUp \o LutDown, stride |-> SizeOfRGBA, o |-> 3],
    [lut |-> LutDown \o LutUp, stride |-> SizeOfLUM,  o |-> 0],
    [lut |-> LutUp \o LutUp,   stride |-> SizeOfRGBA, o |-> 0] }

\* decode_bc3_alpha(dst, source, stride, o) for every a0, a1: u8
InitBc3Alpha ==
  /\ Idle
  /\ pc = "call"
  /\ \E a0 \in 0..U8Max, a1 \in 0..U8Max, c \in AlphaCalls :
       probe = [arg |-> [source |-> << a0, a1 >> \o c.lut, stride |-> c.stride, o |-> c.o],
                out |-> << >>]

CallBc3Alpha ==
  /\ pc = "call"
  /\ probe' = [probe EXCEPT !.out =
                  decode_bc3_alpha(Zeros(16 * probe.arg.stride), probe.arg.source,
                                   probe.arg.stride, probe.arg.o)]
  /\ pc' = "ret"
  /\ UNCHANGED << args, buffer, x, y, y_step, sign, swizzle, flip, bytes, source_ptr,
                  result, allocated, placed, read_end >>

SpecBc3Alpha == InitBc3Alpha /\ [][CallBc3Alpha]_vars

\* endpoints of an alpha block: the extremes, their neighbours, two values
\* whose fifths and sevenths leave a remainder
AlphaEnds == {0, 1, 77, 128, 254, 255}

\* 8-byte alpha blocks: two endpoints and an index table using all 8 indices
AlphaBlocks ==
  { << a0, a1 >> \o l : a0 \in AlphaEnds, a1 \in AlphaEnds,
                         l \in {LutUp \o LutDown, LutDown \o LutUp} }

\* 8-byte colour blocks
ColourBlocks ==
  { ColourBlock(c0, c1, l, l, l, l) : c0 \in ColourWords, c1 \in ColourWords, l \in LutBytes }

\* decode_bc3_block, decode_bc4_block and decode_bc5_block on one block
InitBlock ==
  /\ Idle
  /\ pc = "call"
  /\ \/ \E a \in AlphaBlocks, c \in ColourBlocks :
          probe = [arg |-> [fn |-> "decode_bc3_block", source |-> a \o c], out |-> << >>]
     \/ \E a \in AlphaBlocks :
          probe = [arg |-> [fn |-> "decode_bc4_block", source |-> a], out |-> << >>]
     \/ \E a \in AlphaBlocks, b \in AlphaBlocks :
          probe = [arg |-> [fn |-> "decode_bc5_block", source |-> a \o b], out |-> << >>]

CallBc3Block ==
  /\ pc = "call"
  /\ probe.arg.fn = "decode_bc3_block"
  /\ probe' = [probe EXCEPT !.out = decode_bc3_block(probe.arg.source)]
  /\ pc' = "ret"
  /\ UNCHANGED << args, buffer, x, y, y_step, sign, swizzle, flip, bytes, source_ptr,
                  result, allocated, placed, read_end >>

CallBc4Block ==
  /\ pc = "call"
  /\ probe.arg.fn = "decode_bc4_block"
  /\ probe' = [probe EXCEPT !.out = decode_bc4_block(probe.arg.source)]
  /\ pc' = "ret"
  /\ UNCHANGED << args, buffer, x, y, y_step, sign, swizzle, flip, bytes, source_ptr,
                  result, allocated, placed, read_end >>

CallBc5Block ==
  /\ pc = "call"
  /\ probe.arg.fn = "decode_bc5_block"
  /\ probe' = [probe EXCEPT !.out = decode_bc5_block(probe.arg.source)]
  /\ pc' = "ret"
  /\ UNCHANGED << args, buffer, x, y, y_step, sign, swizzle, flip, bytes, source_ptr,
                  result, allocated, placed, read_end >>

NextBlock == CallBc3Block \/ CallBc4Block \/ CallBc5Block

SpecBlock == InitBlock /\ [][NextBlock]_vars

\* bit k of 0..127 of a fill pattern: all zero, all one, two mixed patterns
\* and their complements
FillBit(fill, k) ==
  CASE fill = 0 -> 0
    [] fill = 1 -> 1
    [] fill = 2 -> (((k + 1) * (k + 1) * 37) \div 16) % 2
    [] fill = 3 -> 1 - ((((k + 1) * (k + 1) * 37) \div 16) % 2)
    [] fill = 4 -> (((k + 3) * (k + 5) * 11) \div 8) % 2
    [] OTHER    -> 1 - ((((k + 3) * (k + 5) * 11) \div 8) % 2)

Fills == 0..5

\* the first bit of the partition field of a two-subset block: 2 + 75 = 5 + 72
PartitionBit == 77

\* bit k of 0..127 of the block with low five bits m5, bits 77..81 holding p
\* unless the low two bits select a one-subset mode, and every other bit
\* from the fill
BlockBit(m5, p, fill, k) ==
  IF k < 5 THEN (m5 \div (2 ^ k)) % 2
  ELSE IF m5 % 4 # 3 /\ k >= PartitionBit /\ k < PartitionBit + 5
  THEN (p \div (2 ^ (k - PartitionBit))) % 2
  ELSE FillBit(fill, k)

\* byte j of 0..15 of that block
BlockByte(m5, p, fill, j) ==
  BlockBit(m5, p, fill, 8 * j) + 2 * BlockBit(m5, p, fill, 8 * j + 1)
    + 4 * BlockBit(m5, p, fill, 8 * j + 2) + 8 * BlockBit(m5, p, fill, 8 * j + 3)
    + 16 * BlockBit(m5, p, fill, 8 * j + 4) + 32 * BlockBit(m5, p, fill, 8 * j + 5)
    + 64 * BlockBit(m5, p, fill, 8 * j + 6) + 128 * BlockBit(m5, p, fill, 8 * j + 7)

Bc6hBlock(m5, p, fill) == Eager([j \in 1..16 |-> BlockByte(m5, p, fill, j - 1)])

\* decode_bc6h_block(col, source, false) for every mode prefix and partition
InitBc6h ==
  /\ Idle
  /\ pc = "call"
  /\ \E m5 \in 0..31, p \in 0..31, fill \in Fills :
       probe = [arg |-> Bc6hBlock(m5, p, fill), out |-> << >>]

CallBc6h ==
  /\ pc = "call"
  /\ probe' = [probe EXCEPT !.out = Bc6hLocals(probe.arg, sign)]
  /\ pc' = "ret"
  /\ UNCHANGED << args, buffer, x, y, y_step, sign, swizzle, flip, bytes, source_ptr,
                  result, allocated, placed, read_end >>

SpecBc6h == InitBc6h /\ [][CallBc6h]_vars

\* the largest prec: epb is at most 16 in Bc6ModeInfo
MaxPrec == 16

\* the lowest and highest endpoint of prec bits: unsigned 0 .. 2^prec - 1,
\* signed -2^(prec-1) .. 2^(prec-1) - 1
LowestV(prec, sgn) == IF sgn THEN -(2 ^ (prec - 1)) ELSE 0
HighestV(prec, sgn) == IF sgn THEN (2 ^ (prec - 1)) - 1 ELSE (2 ^ prec) - 1

\* bc6_unquantize(v, prec, sign) called on the endpoints of prec bits in
\* ascending order; v is passed as the u16 the endpoint array holds, which
\* for a negative endpoint is its sign extension (bc6_sign_extend)
InitUnquantize ==
  /\ Idle
  /\ pc = "call"
  /\ \E prec \in 1..MaxPrec, sgn \in BOOLEAN :
       probe = [arg |-> [v |-> LowestV(prec, sgn), prec |-> prec, sign |-> sgn],
                out |-> 0, prev |-> 0, calls |-> 0]

CallUnquantize ==
  /\ pc = "call"
  /\ probe' = [arg   |-> IF probe.arg.v < HighestV(probe.arg.prec, probe.arg.sign)
                         THEN [probe.arg EXCEPT !.v = @ + 1] ELSE probe.arg,
               out   |-> bc6_unquantize(AsU16(probe.arg.v), probe.arg.prec, probe.arg.sign),
               prev  |-> probe.out,
               calls |-> probe.calls + 1]
  /\ pc' = IF probe.arg.v < HighestV(probe.arg.prec, probe.arg.sign) THEN "call" ELSE "ret"
  /\ UNCHANGED << args, buffer, x, y, y_step, sign, swizzle, flip, bytes, source_ptr,
                  result, allocated, placed, read_end >>

SpecUnquantize == InitUnquantize /\ [][CallUnquantize]_vars

\* bytes of the slice get_bits reads: the extremes, single bits, mixed bits
ByteSamples == {0, 1, 92, 128, 171, 255}

\* the length of the slice: offsets in the last byte have no byte after them
SliceLen == 2

\* the largest count: get_bits returns a u8
MaxCount == 8

\* the results of get_bits the builds can produce.  A byte index out of
\* range panics.  In the one-byte branch (1 << count) - 1 is u8 arithmetic:
\* with count = 8 the shift overflows, which panics when overflow checks
\* are on and takes the shift amount modulo 8 (U8Mask) when they are off.
GetBitsOutcomes(src, bit, count) ==
  LET reads == get_bits_reads(bit, count)
  IN  IF \E r \in reads : r >= Len(src)
      THEN { [panic |-> TRUE, v |-> 0, reads |-> reads] }
      ELSE { [panic |-> FALSE, v |-> get_bits(src, bit, count), reads |-> reads] }
           \cup (IF count # 0 /\ (bit % 8) + count <= 8 /\ count >= 8
                 THEN { [panic |-> TRUE, v |-> 0, reads |-> reads] }
                 ELSE {})

\* get_bits(src, bit, count) for every offset into a two-byte slice
InitGetBits ==
  /\ Idle
  /\ pc = "call"
  /\ \E b0 \in ByteSamples, b1 \in ByteSamples,
        bit \in 0..(8 * SliceLen - 1), count \in 0..MaxCount :
       probe = [arg |-> [src |-> << b0, b1 >>, bit |-> bit, count |-> count],
                out |-> << >>]

CallGetBits ==
  /\ pc = "call"
  /\ \E o \in GetBitsOutcomes(probe.arg.src, probe.arg.bit, probe.arg.count) :
       probe' = [probe EXCEPT !.out = o]
  /\ pc' = "ret"
  /\ UNCHANGED << args, buffer, x, y, y_step, sign, swizzle, flip, bytes, source_ptr,
                  result, allocated, placed, read_end >>

SpecGetBits == InitGetBits /\ [][CallGetBits]_vars

(***************************************************************************)
(* Vocabulary of the properties.                                           *)
(***************************************************************************)
Min(a, b) == IF a < b THEN a ELSE b

CeilDiv4(v) == (v + 3) \div 4

\* decode_rust has returned Ok(state.buffer)
Returned == pc = "done" /\ result = "Ok"

\* decode_rust has returned an Err
Failed == pc = "done" /\ result \in {"InvalidImageSize", "InvalidPixelFormat"}

\* the destination size the specification gives for the call
ExpectedLen ==
  CASE encoding \in {"Bc1", "Bc2", "Bc3", "Bc5"} -> 4 * width * height
    [] encoding = "Bc4"                          -> width * height
    [] encoding = "Bc6H"                         -> 16 * width * height

\* the number of blocks that cover the image
BlocksWide == CeilDiv4(width)

BlocksNeeded == CeilDiv4(width) * CeilDiv4(height)

\* the number of whole blocks the source holds
BlocksHeld == Len(source) \div BlockBytes(encoding)

PartialMode == width % 4 # 0 \/ height % 4 # 0

LumMismatch == format = "LUM" /\ encoding # "Bc4"

\* the byte offsets of the pixels of the width x height image
PixelOffsets == {ElemSize(encoding) * e : e \in 0..(width * height - 1)}

\* the swizzle_copy calls that stored at least one byte
Writes == {k \in DOMAIN placed : placed[k].cnt > 0}

\* every pixel of the image is the target of exactly one write, and no
\* write has another target
EachPixelWrittenOnce ==
  /\ Cardinality(Writes) = width * height
  /\ {placed[k].dst : k \in Writes} = PixelOffsets

(***************************************************************************)
(* C1: from the allocation on, and so whenever a buffer is returned, the   *)
(* length of state.buffer is 4*width*height for BC1/BC2/BC3/BC5,           *)
(* width*height for BC4 and 16*width*height for BC6H; no step of the       *)
(* decode changes it.                                                      *)
(***************************************************************************)
C1_BufferLength == allocated => Len(buffer) = ExpectedLen

\* a BC4 / LUM decode of a 5-wide image has returned width*height bytes
C1_Witness ==
  /\ Returned
  /\ encoding = "Bc4" /\ format = "LUM"
  /\ width = 5 /\ height = 8
  /\ Len(placed) = 40
  /\ Len(buffer) = 40

(***************************************************************************)
(* C2, as stated: for every (encoding, format) pair, LUM included, and     *)
(* every width and height that are positive multiples of 4, decode_rust    *)
(* returns a buffer of the expected destination size.                      *)
(***************************************************************************)
C2_EveryPairReturnsBuffer ==
  (pc = "done" /\ width > 0 /\ height > 0 /\ width % 4 = 0 /\ height % 4 = 0)
    => (result = "Ok" /\ Len(buffer) = ExpectedLen)

(***************************************************************************)
(* C2, amended: for every (encoding, format) pair other than LUM with an   *)
(* encoding that is not BC4, and every width and height that are positive  *)
(* multiples of 4, decode_rust returns a buffer of the expected            *)
(* destination size; for LUM with an encoding other than BC4 it returns    *)
(* InvalidPixelFormat.                                                     *)
(***************************************************************************)
C2_AcceptedPairReturnsBuffer ==
  (pc = "done" /\ width > 0 /\ height > 0 /\ width % 4 = 0 /\ height % 4 = 0)
    => IF LumMismatch
       THEN result = "InvalidPixelFormat"
       ELSE result = "Ok" /\ Len(buffer) = ExpectedLen

\* an 8x4 BC6H / ABGR decode has returned 16*8*4 bytes
C2_Witness ==
  /\ Returned
  /\ encoding = "Bc6H" /\ format = "ABGR"
  /\ width = 8 /\ height = 4
  /\ Len(buffer) = 512
  /\ source_ptr = 32

(***************************************************************************)
(* C3: decode_rust returns InvalidImageSize exactly when width = 0 or      *)
(* height = 0, whatever the encoding and format; otherwise it returns      *)
(* InvalidPixelFormat exactly when the format is LUM and the encoding is   *)
(* not BC4; in every other case it returns a buffer.                       *)
(***************************************************************************)
C3_ResultByArguments ==
  pc = "done" =>
    result = IF width = 0 \/ height = 0 THEN "InvalidImageSize"
             ELSE IF LumMismatch THEN "InvalidPixelFormat"
             ELSE "Ok"

\* a call with a zero height and a LUM / BC3 pair: the size error wins
C3_Witness ==
  /\ pc = "done"
  /\ result = "InvalidImageSize"
  /\ width = 4 /\ height = 0
  /\ format = "LUM" /\ encoding = "Bc3"

(***************************************************************************)
(* C4, as stated: every error return of decode_rust happens before the     *)
(* destination buffer is allocated, so no state in which an error has      *)
(* been returned has the buffer allocated.                                 *)
(***************************************************************************)
C4_ErrorsBeforeAllocation == Failed => ~allocated

(***************************************************************************)
(* C5: once the arguments are accepted, the decode never panics (no read   *)
(* beyond the bytes of the block being decoded, no table or palette index  *)
(* out of range, no destination index outside the buffer), every           *)
(* iteration of the loop either leaves the loop or has strictly fewer      *)
(* source bytes left, and the call ends by returning a buffer.             *)
(***************************************************************************)
C5_Safe ==
  /\ result # "panic"
  /\ read_end <= source_ptr /\ source_ptr <= Len(source)
  /\ pc \in {"loop", "return"} => bytes = Len(source) - source_ptr
  /\ \A k \in DOMAIN placed :
       placed[k].dst >= 0 /\ placed[k].dst + ElemSize(encoding) <= Len(buffer)
  /\ (pc = "done" /\ width # 0 /\ height # 0 /\ ~LumMismatch) => result = "Ok"

C5_LoopStep ==
  /\ pc = "loop" => (pc' \in {"loop", "return"} /\ (pc' = "loop" => bytes' < bytes))
  /\ pc = "return" => (pc' = "done" /\ result' = "Ok")

C5_DecodingCompletes == [] C5_Safe /\ [][C5_LoopStep]_vars

\* a 7x5 signed-off BC6H decode in partial-block mode has read the last
\* byte of its fourth block and returned
C5_Witness ==
  /\ Returned
  /\ encoding = "Bc6H" /\ format = "BGRA"
  /\ width = 7 /\ height = 5
  /\ flip
  /\ source_ptr = 64 /\ read_end = 64
  /\ Len(placed) = 35

(***************************************************************************)
(* C6: a decode that returns has consumed exactly                          *)
(* min(floor(len(source)/block_bytes), ceil(width/4)*ceil(height/4))       *)
(* blocks, the loop being entered again only while y < height; every       *)
(* pixel no block was placed on is still zero; and no source byte at or    *)
(* beyond the end of the consumed blocks has been read.                    *)
(***************************************************************************)
C6_BlocksConsumed ==
  /\ pc = "loop" => y < height
  /\ Returned =>
       /\ source_ptr = BlockBytes(encoding) * Min(BlocksHeld, BlocksNeeded)
       /\ read_end <= source_ptr
       /\ LET targets == {placed[k].dst \div ElemSize(encoding) : k \in DOMAIN placed}
          IN  \A b \in DOMAIN buffer :
                ((b - 1) \div ElemSize(encoding)) \notin targets => buffer[b] = 0

\* an 8x8 BC3 decode whose source holds two blocks and a dangling byte:
\* the upper half is decoded, the lower half is zero
C6_Witness ==
  /\ Returned
  /\ encoding = "Bc3" /\ format = "RGBA"
  /\ width = 8 /\ height = 8
  /\ Len(source) = 33
  /\ source_ptr = 32
  /\ Len(placed) = 32
  /\ \E b \in 1..128 : buffer[b] # 0
  /\ \A b \in 129..256 : buffer[b] = 0

(***************************************************************************)
(* C7, as stated: when the source holds at least                           *)
(* ceil(width/4)*ceil(height/4) blocks, a decode that returns has written  *)
(* every in-bounds pixel exactly once and has written nowhere else.        *)
(***************************************************************************)
C7_EachPixelWrittenOnce == (Returned /\ BlocksHeld >= BlocksNeeded) => EachPixelWrittenOnce

C9_PixelOffset ==
  /\ pc \in {"loop", "return"} =>
       /\ y_step = IF PartialMode THEN -1 ELSE 1
       /\ flip = PartialMode
  /\ \A k \in DOMAIN placed :
       LET j  == placed[k].n \div 4
           i  == placed[k].n % 4
           yy == IF PartialMode
                 THEN height - (placed[k].by + j) - 1
                 ELSE placed[k].by + j
       IN  /\ placed[k].dst = ElemSize(encoding) * (yy * width + (placed[k].bx + i))
           /\ PartialMode =>
                /\ placed[k].by + j < height
                /\ placed[k].bx + i < width
                /\ yy \in 0..(height - 1)

\* a 5x6 decode in partial-block mode has placed pixel 1*4+0 of the block
\* at cursor (4, 4) on row 6-5-1 = 0
C9_Witness ==
  /\ width = 5 /\ height = 6
  /\ encoding = "Bc5" /\ format = "ARGB"
  /\ y_step = -1
  /\ \E k \in DOMAIN placed :
       /\ placed[k].bx = 4 /\ placed[k].by = 4 /\ placed[k].n = 4
       /\ placed[k].dst = 4 * (0 * 5 + 4)

(***************************************************************************)
(* C10, as stated: the output is row-major and top-to-bottom for every     *)
(* accepted width and height: block pixel j*4+i of source block number     *)
(* blk, which is the pixel of image row r = 4*(blk / blocks_wide) + j and  *)
(* column c = 4*(blk % blocks_wide) + i, is stored at element index        *)
(* r*width + c.                                                            *)
(***************************************************************************)
C10_TopToBottom ==
  \A k \in DOMAIN placed :
    LET r == 4 * (placed[k].blk \div BlocksWide) + (placed[k].n \div 4)
        c == 4 * (placed[k].blk % BlocksWide) + (placed[k].n % 4)
    IN  placed[k].dst = ElemSize(encoding) * (r * width + c)

(***************************************************************************)
(* C11, as stated: for BC1, BC2, BC3 and BC5 and each of BGRA, ARGB and    *)
(* ABGR, the returned buffer is the buffer decode_rust returns for RGBA    *)
(* with the four bytes of every pixel put in the channel order the format  *)
(* names, (B,G,R,A), (A,R,G,B) or (A,B,G,R); the swizzle the driver sets   *)
(* is 0xC6, 0x93 or 0x1B, its four 2-bit fields are a permutation of       *)
(* 0..3, and field k is the output slot that holds source channel k.       *)
(***************************************************************************)
\* 2-bit field k of a swizzle
SwizzleField(swz, k) == Shr(swz, 2 * k) % 4

\* the source channel (0 = R, 1 = G, 2 = B, 3 = A) the format names for each
\* output slot
ChannelOrder(fmt) ==
  CASE fmt = "BGRA" -> << 2, 1, 0, 3 >>
    [] fmt = "ARGB" -> << 3, 0, 1, 2 >>
    [] fmt = "ABGR" -> << 3, 2, 1, 0 >>

\* an RGBA buffer with every 4-byte pixel put in the order of the format
Permuted(buf, fmt) ==
  [k \in 1..Len(buf) |->
     buf[4 * ((k - 1) \div 4) + ChannelOrder(fmt)[((k - 1) % 4) + 1] + 1]]

C11_SwizzleLaw ==
  (encoding \in {"Bc1", "Bc2", "Bc3", "Bc5"} /\ format \in {"BGRA", "ARGB", "ABGR"}) =>
    /\ pc \in {"dispatch", "loop", "return"} =>
         /\ swizzle = (CASE format = "BGRA" -> 198
                         [] format = "ARGB" -> 147
                         [] format = "ABGR" -> 27)
         /\ {SwizzleField(swizzle, k) : k \in 0..3} = 0..3
         /\ \A k \in 0..3 : ChannelOrder(format)[SwizzleField(swizzle, k) + 1] = k
    /\ Returned =>
         buffer = Permuted(decode_rust(source, width, height, encoding, "RGBA"), format)

(***************************************************************************)
(* C12, as stated: a call with encoding BC4 and a format other than LUM    *)
(* returns an error, so that no swizzle_copy call with element size 1      *)
(* takes the four-component path (a swizzle other than 0 and 0xe4).        *)
(***************************************************************************)
C12_Bc4NonLumRejected ==
  /\ (pc = "done" /\ encoding = "Bc4" /\ format # "LUM") => Failed
  /\ \A k \in DOMAIN placed :
       ~(ElemSize(encoding) = 1 /\ swizzle \notin {0, 228})

(***************************************************************************)
(* C13, as stated: for BC6H the swizzle_copy call of the pixel in buffer   *)
(* row r and column c stores its 12 bytes of float channels from byte      *)
(* 16*(r*width + c) on, so that bytes 12..15 of every 16-byte pixel are    *)
(* never written.                                                          *)
(***************************************************************************)
C13_Bc6hStride ==
  encoding = "Bc6H" =>
    \A k \in DOMAIN placed :
      LET j == placed[k].n \div 4
          i == placed[k].n % 4
          r == IF PartialMode THEN height - (placed[k].by + j) - 1 ELSE placed[k].by + j
          c == placed[k].bx + i
      IN  /\ placed[k].dst = 16 * (r * width + c)
          /\ placed[k].cnt = 12

(***************************************************************************)
(* C14: a BC6H block whose computed mode is >= 14 raises no error: the     *)
(* loop iteration that decodes it consumes its 16 bytes, moves the cursor  *)
(* on by one block and stays in the loop unless the cursor has reached     *)
(* the height; and every pixel placed from such a block is zero in the     *)
(* buffer, whatever the blocks before and after it hold.                   *)
(***************************************************************************)
\* source block number b has an invalid mode
InvalidBlock(b) == Bc6hHeader(SliceFrom(source, 16 * b)).mode >= 14

C14_ZeroPixels ==
  encoding = "Bc6H" =>
    \A k \in DOMAIN placed :
      InvalidBlock(placed[k].blk) =>
        \A b \in 1..SizeOfRGB32f : buffer[placed[k].dst + b] = 0

C14_Step ==
  (pc = "loop" /\ encoding = "Bc6H" /\ bytes >= 16 /\ InvalidBlock(source_ptr \div 16)) =>
    /\ result' = "none"
    /\ source_ptr' = source_ptr + 16
    /\ bytes' = bytes - 16
    /\ x' = (IF x + 4 >= width THEN 0 ELSE x + 4)
    /\ y' = (IF x + 4 >= width THEN y + 4 ELSE y)
    /\ pc' = (IF y' >= height THEN "return" ELSE "loop")
    /\ Len(placed') > Len(placed) \/ flip

C14_InvalidBlockSkipped == [] C14_ZeroPixels /\ [][C14_Step]_vars

\* an invalid block between two valid ones: the decode has returned, the
\* pixels of the invalid block are zero and the next block has been decoded
C14_Witness ==
  /\ Returned
  /\ encoding = "Bc6H"
  /\ \E k1, k2 \in DOMAIN placed :
       /\ InvalidBlock(placed[k1].blk)
       /\ placed[k1].blk > 0
       /\ ~InvalidBlock(placed[k1].blk - 1)
       /\ placed[k2].blk = placed[k1].blk + 1
       /\ ~InvalidBlock(placed[k2].blk)
       /\ \E b \in 1..SizeOfRGB32f : buffer[placed[k2].dst + b] # 0

(***************************************************************************)
(* C15, as stated: for every BC6H block with a valid mode that the decode  *)
(* has consumed (decoded unsigned), every unquantized endpoint lies in     *)
(* 0..0xFFFF and every output channel of every pixel of the block is a     *)
(* finite, non-negative float: its sign bit is 0 and its exponent field    *)
(* is not 255.                                                             *)
(***************************************************************************)
\* the array ueps of decode_bc6h_block for a block with a valid mode
BlockUeps(blk) ==
  LET hdr  == Bc6hHeader(blk)
      info == Bc6ModeInfo(hdr.mode)
      endpoints == Bc6hEndpoints(blk, hdr, info, FALSE)
  IN  [k \in 1..Bc6hNumEp(info) |-> bc6_unquantize(endpoints[k], info.epb, FALSE)]

\* the f32 whose four little-endian bytes start at index k of bs is finite
\* and not negative
FiniteNonNegative(bs, k) ==
  /\ bs[k + 3] < 128
  /\ 2 * (bs[k + 3] % 128) + (bs[k + 2] \div 128) # 255

C15_FiniteChannels ==
  encoding = "Bc6H" =>
    \A b \in 0..((source_ptr \div 16) - 1) :
      LET blk == SubSeq(source, 16 * b + 1, 16 * b + 16)
      IN  Bc6hHeader(blk).mode < 14 =>
            /\ \A k \in DOMAIN BlockUeps(blk) : BlockUeps(blk)[k] \in 0..65535
            /\ LET col == decode_bc6h_block(blk, FALSE)
               IN  \A c \in 0..47 : FiniteNonNegative(col, 4 * c + 1)

(***************************************************************************)
(* C16: for every 16-bit x, decode_565(x) has                              *)
(* red = ((x>>8)&0xF8)|((x>>13)&7), green = ((x>>3)&0xFC)|((x>>9)&3),      *)
(* blue = ((x<<3)&0xF8)|((x>>2)&7) and alpha = 0xFF; 0x0000, 0xFFFF,       *)
(* 0xF800, 0x07E0 and 0x001F give black, white, red, green and blue.       *)
(***************************************************************************)
C16_Unpack565 ==
  pc = "ret" =>
    LET v == probe.arg
    IN  /\ probe.out =
             [r |-> BitOr(BitAnd(Shr(v, 8), 248), BitAnd(Shr(v, 13), 7)),
              g |-> BitOr(BitAnd(Shr(v, 3), 252), BitAnd(Shr(v, 9), 3)),
              b |-> BitOr(BitAnd(Shl(v, 3), 248), BitAnd(Shr(v, 2), 7)),
              a |-> 255]
        /\ v = 0     => probe.out = [r |-> 0,   g |-> 0,   b |-> 0,   a |-> 255]
        /\ v = 65535 => probe.out = [r |-> 255, g |-> 255, b |-> 255, a |-> 255]
        /\ v = 63488 => probe.out = [r |-> 255, g |-> 0,   b |-> 0,   a |-> 255]
        /\ v = 2016  => probe.out = [r |-> 0,   g |-> 255, b |-> 0,   a |-> 255]
        /\ v = 31    => probe.out = [r |-> 0,   g |-> 0,   b |-> 255, a |-> 255]

\* decode_565(0x07E0) has returned pure green
C16_Witness ==
  /\ pc = "ret"
  /\ probe.arg = 2016
  /\ probe.out = [r |-> 0, g |-> 255, b |-> 0, a |-> 255]

(***************************************************************************)
(* C17: a BC1 colour block with endpoints c0, c1 has p0 = 565(c0),         *)
(* p1 = 565(c1); if c0 > c1 as raw 16-bit values, p2 = (2*p0+p1)/3 and     *)
(* p3 = (p0+2*p1)/3 per channel, truncated, with alpha 255; otherwise      *)
(* p2 = (p0+p1)/2 with alpha 255 and p3 = (0,0,0,0).  Pixel n of 0..15 is  *)
(* p[(LUT >> 2n) & 3].                                                     *)
(***************************************************************************)
\* the channels of two colours combined as (m * a + n * b) / d, opaque
Mix(a, b, m, n, d) ==
  [r |-> (m * a.r + n * b.r) \div d,
   g |-> (m * a.g + n * b.g) \div d,
   b |-> (m * a.b + n * b.b) \div d,
   a |-> 255]

\* the two index bits of pixel n in the table bytes l, a sequence of 4 bytes
TwoBits(l, n) == (l[(n \div 4) + 1] \div (2 ^ (2 * (n % 4)))) % 4

\* what the claim says an 8-byte colour block decodes to
ClaimedBc1(blk) ==
  LET c0 == blk[1] + 256 * blk[2]
      c1 == blk[3] + 256 * blk[4]
      p0 == decode_565(c0)
      p1 == decode_565(c1)
      p  == IF c0 > c1
            THEN << p0, p1, Mix(p0, p1, 2, 1, 3), Mix(p0, p1, 1, 2, 3) >>
            ELSE << p0, p1, Mix(p0, p1, 1, 1, 2), [r |-> 0, g |-> 0, b |-> 0, a |-> 0] >>
  IN  [n \in 1..16 |-> p[TwoBits(SubSeq(blk, 5, 8), n - 1) + 1]]

C17_Bc1Palette ==
  pc = "ret" => \A n \in 1..16 : probe.out[n] = ClaimedBc1(probe.arg)[n]

\* red and blue endpoints, c0 > c1: the first four pixels are the four
\* palette entries, the two interpolated ones truncated thirds
C17_Witness ==
  /\ pc = "ret"
  /\ probe.arg = ColourBlock(63488, 31, 228, 27, 147, 228)
  /\ probe.out[1] = [r |-> 255, g |-> 0, b |-> 0, a |-> 255]
  /\ probe.out[2] = [r |-> 0, g |-> 0, b |-> 255, a |-> 255]
  /\ probe.out[3] = [r |-> 170, g |-> 0, b |-> 85, a |-> 255]
  /\ probe.out[4] = [r |-> 85, g |-> 0, b |-> 170, a |-> 255]
  /\ probe.out[5] = probe.out[4]
  /\ probe.out[16] = probe.out[4]

(***************************************************************************)
(* C18: in a BC2 block the alpha of pixel n is the 4-bit value at bits     *)
(* 4n..4n+3 of bytes 0..7 (low nibble of each byte first), replicated as   *)
(* av | (av << 4); it replaces the alpha of the BC1 colour logic, so a     *)
(* pixel that selects palette entry 3 with c0 <= c1 has RGB (0,0,0) and    *)
(* the explicit alpha.  The RGB of every pixel comes from the BC1 colour   *)
(* block in bytes 8..15.                                                   *)
(***************************************************************************)
\* the 4 bits of pixel n in the alpha bytes
Nibble(blk, n) == (blk[(n \div 2) + 1] \div (16 ^ (n % 2))) % 16

C18_Bc2Alpha ==
  pc = "ret" =>
    LET blk == probe.arg
        rgb == ClaimedBc1(SubSeq(blk, 9, 16))
        c0  == blk[9] + 256 * blk[10]
        c1  == blk[11] + 256 * blk[12]
    IN  \A n \in 0..15 :
          /\ probe.out[4 * n + 4] = Nibble(blk, n) + 16 * Nibble(blk, n)
          /\ probe.out[4 * n + 1] = rgb[n + 1].r
          /\ probe.out[4 * n + 2] = rgb[n + 1].g
          /\ probe.out[4 * n + 3] = rgb[n + 1].b
          /\ (c0 <= c1 /\ TwoBits(SubSeq(blk, 13, 16), n) = 3) =>
               /\ probe.out[4 * n + 1] = 0
               /\ probe.out[4 * n + 2] = 0
               /\ probe.out[4 * n + 3] = 0

\* c0 = 0 <= c1 = 0xFFFF, alpha nibbles 0..15: pixel 3 selects entry 3 and is
\* (0,0,0) with alpha 0x33, pixel 2 is the half-way grey with alpha 0x22
C18_Witness ==
  /\ pc = "ret"
  /\ probe.arg = AlphaBytes(16, 34) \o ColourBlock(0, 65535, 228, 228, 228, 228)
  /\ SubSeq(probe.out, 13, 16) = << 0, 0, 0, 51 >>
  /\ SubSeq(probe.out, 9, 12) = << 127, 127, 127, 34 >>
  /\ SubSeq(probe.out, 61, 64) = << 0, 0, 0, 255 >>

(***************************************************************************)
(* C19: a BC3 alpha block with endpoints a0, a1 has a[0] = a0, a[1] = a1;  *)
(* if a0 > a1 then a[1+k] = ((7-k)*a0 + k*a1)/7 for k = 1..6, otherwise    *)
(* a[1+k] = ((5-k)*a0 + k*a1)/5 for k = 1..4, a[6] = 0 and a[7] = 255, all *)
(* divisions truncating.  Pixel n of 0..7 takes index bits 3n..3n+2 of the *)
(* first 24-bit LUT half (bytes 2..4, little-endian), pixel 8+n those of   *)
(* the second half (bytes 5..7).                                           *)
(***************************************************************************)
\* entry i of 0..7 of the palette the claim describes
ClaimedAlpha(a0, a1, i) ==
  IF i = 0 THEN a0
  ELSE IF i = 1 THEN a1
  ELSE IF a0 > a1 THEN ((7 - (i - 1)) * a0 + (i - 1) * a1) \div 7
  ELSE IF i <= 5 THEN ((5 - (i - 1)) * a0 + (i - 1) * a1) \div 5
  ELSE IF i = 6 THEN 0
  ELSE 255

\* the three index bits of pixel n of 0..7 in the three bytes h
ThreeBits(h, n) == ((h[1] + 256 * h[2] + 65536 * h[3]) \div (8 ^ n)) % 8

\* the palette index of pixel n of 0..15 in the 8-byte alpha block src
AlphaIndex(src, n) ==
  IF n < 8 THEN ThreeBits(SubSeq(src, 3, 5), n) ELSE ThreeBits(SubSeq(src, 6, 8), n - 8)

\* the byte the call stored for pixel n of 0..15
AlphaOut(n) == probe.out[probe.arg.stride * n + probe.arg.o + 1]

C19_Bc3AlphaPalette ==
  pc = "ret" =>
    LET src == probe.arg.source
    IN  \A n \in 0..15 :
          AlphaOut(n) = ClaimedAlpha(src[1], src[2], AlphaIndex(src, n))

\* a0 = 255 > a1 = 0 as the alpha of RGBA pixels: pixels 0..7 hold the
\* palette in order, with truncated sevenths, and pixels 8..15 hold it reversed
C19_Witness ==
  /\ pc = "ret"
  /\ probe.arg = [source |-> << 255, 0 >> \o LutUp \o LutDown, stride |-> 4, o |-> 3]
  /\ [n \in 0..7 |-> AlphaOut(n)] = [n \in 0..7 |-> << 255, 0, 218, 182, 145, 109, 72, 36 >>[n + 1]]
  /\ \A n \in 0..7 : AlphaOut(8 + n) = AlphaOut(7 - n)

(***************************************************************************)
(* C20: for every byte value v, the BC3 alpha palette computed from        *)
(* a0 = a1 = v has all 8 entries equal to v.                               *)
(* As stated this fails: a0 = a1 takes the six-value branch, whose entries *)
(* 6 and 7 are the constants 0 and 255.  C20_EqualEndpoints is the         *)
(* statement that holds: entries 0..5 equal v, entry 6 is 0, entry 7 is    *)
(* 255.  The palette is read off the pixels, each of which stores the      *)
(* entry its index selects; every call uses all 8 indices.                 *)
(***************************************************************************)
C20_AllEntriesEqual ==
  (pc = "ret" /\ probe.arg.source[1] = probe.arg.source[2]) =>
    \A n \in 0..15 : AlphaOut(n) = probe.arg.source[1]

C20_EqualEndpoints ==
  (pc = "ret" /\ probe.arg.source[1] = probe.arg.source[2]) =>
    LET src == probe.arg.source
    IN  /\ {AlphaIndex(src, n) : n \in 0..7} = 0..7
        /\ \A n \in 0..15 :
             AlphaOut(n) = IF AlphaIndex(src, n) <= 5 THEN src[1]
                           ELSE IF AlphaIndex(src, n) = 6 THEN 0
                           ELSE 255

\* a0 = a1 = 128 as a BC4 block: the pixels selecting entries 7, 6, .., 0
C20_Witness ==
  /\ pc = "ret"
  /\ probe.arg = [source |-> << 128, 128 >> \o LutDown \o LutUp, stride |-> 1, o |-> 0]
  /\ SubSeq(probe.out, 1, 8) = << 255, 0, 128, 128, 128, 128, 128, 128 >>

(***************************************************************************)
(* C21: decode_bc3_alpha writes only byte stride*n + o of each of the 16   *)
(* pixels and leaves every other byte of the block unchanged.  A BC3 block *)
(* has its alpha in byte 3 of each RGBA pixel with RGB from the colour     *)
(* block; a BC4 block has it in the single byte of each LUM pixel; a BC5   *)
(* block has the first alpha block in byte 0 (R), the second (source bytes *)
(* 8..15) in byte 1 (G), and bytes 2 and 3 (B, A) equal to 0.              *)
(***************************************************************************)
\* the value the alpha block src gives pixel n of 0..15
AlphaOf(src, n) == ClaimedAlpha(src[1], src[2], AlphaIndex(src, n))

C21_AlphaSlot ==
  pc = "ret" =>
    LET src == probe.arg.source
        out == probe.out
    IN  CASE probe.arg.fn = "decode_bc3_block" ->
               LET rgb == ClaimedBc1(SubSeq(src, 9, 16))
               IN  /\ Len(out) = 64
                   /\ \A n \in 0..15 :
                        /\ out[4 * n + 1] = rgb[n + 1].r
                        /\ out[4 * n + 2] = rgb[n + 1].g
                        /\ out[4 * n + 3] = rgb[n + 1].b
                        /\ out[4 * n + 4] = AlphaOf(SubSeq(src, 1, 8), n)
          [] probe.arg.fn = "decode_bc4_block" ->
               /\ Len(out) = 16
               /\ \A n \in 0..15 : out[n + 1] = AlphaOf(src, n)
          [] probe.arg.fn = "decode_bc5_block" ->
               /\ Len(out) = 64
               /\ \A n \in 0..15 :
                    /\ out[4 * n + 1] = AlphaOf(SubSeq(src, 1, 8), n)
                    /\ out[4 * n + 2] = AlphaOf(SubSeq(src, 9, 16), n)
                    /\ out[4 * n + 3] = 0
                    /\ out[4 * n + 4] = 0

\* a BC3 block with alpha endpoints 255 > 77 over red and blue colour
\* endpoints: pixel 2 keeps the interpolated colour and takes alpha entry 2
C21_Witness ==
  /\ pc = "ret"
  /\ probe.arg = [fn |-> "decode_bc3_block",
                  source |-> << 255, 77 >> \o LutUp \o LutDown
                               \o ColourBlock(63488, 31, 228, 228, 228, 228)]
  /\ SubSeq(probe.out, 9, 12) = << 170, 0, 85, 229 >>
  /\ SubSeq(probe.out, 1, 4) = << 255, 0, 0, 255 >>

(***************************************************************************)
(* C22: BC6H mode decoding from the low 5 bits of byte 0: low two bits 00  *)
(* or 01 give mode 0 or 1 with 75 endpoint bits starting at bit 2 and      *)
(* ib = 3; low two bits 10 give mode = 2 + bits[4:2], giving modes 2..5,   *)
(* with 72 endpoint bits starting at bit 5 and ib = 3; low two bits 11     *)
(* give mode = 10 + bits[4:2], giving modes 10..13, with 60 endpoint bits  *)
(* starting at bit 5 and ib = 4.                                           *)
(* As stated this fails: bits[4:2] is a 3-bit field, so the low two bits   *)
(* 10 give the modes 2..9.  C22_ModePrefix is the statement that holds.    *)
(***************************************************************************)
\* the mode, first endpoint bit, endpoint bit count and index width agree
\* with the claim's formulas
PrefixFields ==
  LET b0   == probe.arg[1]
      low2 == b0 % 4
      hi3  == (b0 \div 4) % 8
      out  == probe.out
  IN  CASE low2 \in {0, 1} ->
             out.mode = low2 /\ out.epbits = 75 /\ out.start = 2 /\ out.ib = 3
        [] low2 = 2 ->
             out.mode = 2 + hi3 /\ out.epbits = 72 /\ out.start = 5 /\ out.ib = 3
        [] low2 = 3 ->
             out.mode = 10 + hi3 /\ out.epbits = 60 /\ out.start = 5 /\ out.ib = 4

C22_ModePrefixTwoToFive ==
  pc = "ret" =>
    /\ PrefixFields
    /\ probe.arg[1] % 4 = 2 => probe.out.mode \in 2..5
    /\ (probe.arg[1] % 4 = 3 /\ probe.out.mode < 14) => probe.out.mode \in 10..13

C22_ModePrefix ==
  pc = "ret" =>
    /\ PrefixFields
    /\ probe.arg[1] % 4 = 2 => probe.out.mode \in 2..9
    /\ \A m \in 2..9 : probe.arg[1] % 32 = 4 * (m - 2) + 2 => probe.out.mode = m
    /\ (probe.arg[1] % 4 = 3 /\ probe.out.mode < 14) => probe.out.mode \in 10..13

\* byte 0 with low five bits 11110: mode 2 + 7 = 9, decoded to the last bit
C22_Witness ==
  /\ pc = "ret"
  /\ probe.arg[1] % 32 = 30
  /\ probe.out.mode = 9
  /\ probe.out.epbits = 72
  /\ ~probe.out.panic
  /\ probe.out.bit = 128

(***************************************************************************)
(* C23: for every valid BC6H mode and every partition value, the bits      *)
(* consumed by one block (mode prefix + endpoint bits + partition bits +   *)
(* 16 weight indices, where pixel 0 and, for two-subset modes, the anchor  *)
(* pixel AI0[partition] use ib-1 bits and every other pixel ib bits) total *)
(* exactly 128, and no read, the two-byte read of get_bits included,       *)
(* touches a byte index >= 16 of the block.                                *)
(***************************************************************************)
\* the number of pixels whose weight index is one bit short
ShortIndices(m, partition) ==
  Cardinality({0} \cup (IF Bc6ModeInfo(m).ns = 2 THEN {BC7_AI0[partition + 1]} ELSE {}))

C23_BlockBits ==
  (pc = "ret" /\ probe.out.mode < 14) =>
    LET out == probe.out
        m   == out.mode
    IN  /\ out.start + out.epbits + Bc6ModeInfo(m).pb
             + 16 * out.ib - ShortIndices(m, out.partition) = 128
        /\ out.bit = 128
        /\ \A r \in out.reads : r < 16
        /\ 15 \in out.reads
        /\ ~out.panic

\* a two-subset block of mode 5 with partition 17, whose anchor is pixel 2,
\* and a one-subset block of mode 12 are covered; the first is the witness
C23_Witness ==
  /\ pc = "ret"
  /\ probe.out.mode = 5
  /\ probe.out.partition = 17
  /\ BC7_AI0[18] = 2
  /\ probe.out.bit = 128
  /\ probe.out.reads = 0..15

(***************************************************************************)
(* C24: in a BC6H mode with tr = 1, delta application is per-channel: each *)
(* component of every subsequent endpoint (R, G or B of endpoints 1..3)    *)
(* has the same-channel component of endpoint 0 added to it modulo 2^epb:  *)
(* R deltas add endpoint-0 R, G deltas add endpoint-0 G and B deltas add   *)
(* endpoint-0 B.                                                           *)
(***************************************************************************)
\* the block is of a valid mode with tr = 1 and was decoded
DeltaMode ==
  /\ pc = "ret"
  /\ probe.out.mode < 14
  /\ Bc6ModeInfo(probe.out.mode).tr = 1

C24_PerChannelDeltas ==
  DeltaMode =>
    LET info == Bc6ModeInfo(probe.out.mode)
        e    == probe.out.extended
    IN  \A k \in 3..(Bc6hNumEp(info) - 1) :
          probe.out.endpoints[k + 1] = (e[k + 1] + e[(k % 3) + 1]) % (2 ^ info.epb)

(***************************************************************************)
(* C25: in every decode started through decode_rust the sign flag of the   *)
(* decoder state is false from creation to return, so every BC6H block is  *)
(* decoded with the unsigned path (no endpoint-0 sign extension, unsigned  *)
(* unquantize, unsigned finalize); no input selects signed BC6H.           *)
(* decode_rust(..) below is the decode with every block decoded unsigned.  *)
(***************************************************************************)
C25_SignNeverSet ==
  /\ sign = FALSE
  /\ (Returned /\ encoding = "Bc6H") =>
       buffer = decode_rust(source, width, height, encoding, format)

\* a finished BC6H decode that consumed a block whose signed decoding differs
C25_Witness ==
  /\ Returned
  /\ encoding = "Bc6H"
  /\ source_ptr >= 16
  /\ placed # << >>
  /\ LET blk == SubSeq(source, 1, 16)
     IN  /\ ~Bc6hInvalid(Bc6hHeader(blk).mode)
         /\ decode_bc6h_block(blk, TRUE) # decode_bc6h_block(blk, FALSE)

(***************************************************************************)
(* C26: bc6_unquantize is monotone (non-decreasing) in v for every fixed   *)
(* prec and fixed sign: unsigned over v in 0..2^prec-1 using 0 -> 0,       *)
(* 2^prec-1 -> 0xFFFF, otherwise ((v<<15)+0x4000) >> (prec-1), identity    *)
(* for prec >= 15; signed over the sign-extended values of v read as       *)
(* signed 16-bit numbers.                                                  *)
(***************************************************************************)
\* the endpoint of the latest call: arg.v has moved on unless it was the last
CalledV == IF pc = "call" THEN probe.arg.v - 1 ELSE probe.arg.v

\* ((v << 15) + 0x4000) >> (prec - 1) as the claim writes it
ClaimedUnq(v, prec) == ((v * 32768) + 16384) \div (2 ^ (prec - 1))

\* the unsigned result as the claim describes it
ClaimedUnsigned(v, prec) ==
  IF prec >= 15 THEN v
  ELSE IF v = 0 THEN 0
  ELSE IF v = (2 ^ prec) - 1 THEN 65535
  ELSE ClaimedUnq(v, prec)

C26_Monotone ==
  /\ (probe.calls >= 1 /\ ~probe.arg.sign) =>
       probe.out = ClaimedUnsigned(CalledV, probe.arg.prec)
  /\ probe.calls >= 2 => probe.prev <= probe.out

(***************************************************************************)
(* C27: signed bc6_unquantize with prec < 16 treats its 16-bit argument as *)
(* a signed value: for a sign-extended negative endpoint it takes the      *)
(* absolute value, unquantizes it, clamps at 0x7FFF and returns the        *)
(* negated result, so a negative input never yields a positive output;     *)
(* for prec >= 16 it returns v as a signed number.                         *)
(***************************************************************************)
\* the magnitude the signed path gives a non-negative m
ClaimedMagnitude(m, prec) ==
  IF m = 0 THEN 0
  ELSE IF m >= (2 ^ (prec - 1)) - 1 THEN 32767
  ELSE ClaimedUnq(m, prec)

C27_SignedUnquantize ==
  (probe.calls >= 1 /\ probe.arg.sign) =>
    LET v == CalledV
    IN  IF probe.arg.prec >= 16 THEN probe.out = v
        ELSE /\ v < 0 => probe.out <= 0
             /\ probe.out = IF v < 0 THEN -ClaimedMagnitude(-v, probe.arg.prec)
                            ELSE ClaimedMagnitude(v, probe.arg.prec)

(***************************************************************************)
(* C28: for every valid BC6H mode m and every descriptor index             *)
(* i < epbits(m), the descriptor BC6_BIT_PACKINGS[m][i] selects an         *)
(* endpoint word dw < numep (6 for one subset, 12 for two) and a bit       *)
(* position below that word's declared width (epb for words 0..2, rb / gb  *)
(* / bb for the R / G / B word of later endpoints), and no two descriptors *)
(* of a mode name the same (word, bit); hence after unpacking every        *)
(* endpoint word is < 2^width.                                             *)
(***************************************************************************)
\* the number of packed endpoint bits of mode m
EpBitsOf(m) == IF m < 2 THEN 75 ELSE IF m < 10 THEN 72 ELSE 60

\* the declared width of endpoint word dw in mode m
WordWidth(m, dw) ==
  LET info == Bc6ModeInfo(m)
  IN  IF dw < 3 THEN info.epb
      ELSE IF dw % 3 = 0 THEN info.rb
      ELSE IF dw % 3 = 1 THEN info.gb
      ELSE info.bb

\* descriptor i of mode m, its word and its bit
Descriptor(m, i) == BC6_BIT_PACKINGS[m + 1][i + 1]
DescWord(m, i) == Descriptor(m, i) \div 16
DescBit(m, i) == Descriptor(m, i) % 16

\* the descriptors of mode m that name a word or a bit out of range
OutOfWidth(m) ==
  { i \in 0..(EpBitsOf(m) - 1) :
      \/ DescWord(m, i) >= Bc6hNumEp(Bc6ModeInfo(m))
      \/ DescBit(m, i) >= WordWidth(m, DescWord(m, i)) }

\* no two descriptors of mode m name the same (word, bit)
NoDuplicate(m) ==
  Cardinality({ Descriptor(m, i) : i \in 0..(EpBitsOf(m) - 1) }) = EpBitsOf(m)

C28_DescriptorsInWidth ==
  /\ \A m \in 0..13 : OutOfWidth(m) = {} /\ NoDuplicate(m)
  /\ (pc = "ret" /\ probe.out.mode < 14) =>
       \A dw \in 0..(Bc6hNumEp(Bc6ModeInfo(probe.out.mode)) - 1) :
         probe.out.unpacked[dw + 1] < 2 ^ WordWidth(probe.out.mode, dw)

(***************************************************************************)
(* C29: throughout a decode the block cursor x and y are both multiples of *)
(* 4 and both monotonically advancing (neither ever decreases from one     *)
(* block to the next); at every block placement x < width and y < height,  *)
(* so blocks are visited left-to-right, top-to-bottom and every placed     *)
(* block has at least one in-bounds pixel.                                 *)
(* As stated this fails: x returns to 0 at the end of every block row.     *)
(* C29_CursorOrder is the statement that holds: y never decreases, x       *)
(* advances by 4 within a row and returns to 0 when x + 4 >= width, where  *)
(* y advances by 4.  The cursor of each placement is read from the log     *)
(* placed, which holds one entry per pixel stored, in order.               *)
(***************************************************************************)
\* the cursor is aligned, and every placement was made inside the image
\* and holds a pixel of the image
CursorInBounds ==
  /\ x % 4 = 0 /\ y % 4 = 0
  /\ pc = "loop" => x < width /\ y < height
  /\ \A k \in DOMAIN placed :
       /\ placed[k].bx % 4 = 0 /\ placed[k].by % 4 = 0
       /\ placed[k].bx < width /\ placed[k].by < height
  /\ \A b \in 0..((source_ptr \div BlockBytes(encoding)) - 1) :
       \E k \in DOMAIN placed : placed[k].blk = b

\* the cursors of two placements that follow each other, and the cursor now
CursorPairs ==
  { << << placed[k].bx, placed[k].by >>, << placed[k + 1].bx, placed[k + 1].by >> >> :
      k \in 1..(Len(placed) - 1) }
  \cup (IF placed = << >> THEN {}
        ELSE { << << placed[Len(placed)].bx, placed[Len(placed)].by >>, << x, y >> >> })

C29_NeverDecreases ==
  /\ CursorInBounds
  /\ \A p \in CursorPairs : p[2][1] >= p[1][1] /\ p[2][2] >= p[1][2]

C29_CursorOrder ==
  /\ CursorInBounds
  /\ \A p \in CursorPairs :
       \/ p[2] = p[1]
       \/ p[2][2] = p[1][2] /\ p[2][1] = p[1][1] + 4 /\ p[2][1] < width
       \/ p[2][2] = p[1][2] + 4 /\ p[2][1] = 0 /\ p[1][1] + 4 >= width

\* a finished decode of an image two blocks wide and two blocks high:
\* the cursor went (0,0), (4,0), (0,4), (4,4) and ended at (0,8)
C29_Witness ==
  /\ Returned
  /\ width > 4 /\ height > 4
  /\ { << placed[k].bx, placed[k].by >> : k \in DOMAIN placed }
       = { << 0, 0 >>, << 4, 0 >>, << 0, 4 >>, << 4, 4 >> }
  /\ x = 0 /\ y = 8

(***************************************************************************)
(* C30: for every bit offset and every n with 1 <= n <= 8 such that the    *)
(* needed bytes exist, get_bits(src, bit, n) returns the low n bits of     *)
(* ((src[bit>>3] | src[(bit>>3)+1] << 8) >> (bit & 7)) with no 8-bit       *)
(* arithmetic overflow (including n = 8 at a byte-aligned offset), reads   *)
(* src[(bit>>3)+1] only when (bit & 7) + n > 8, and returns 0 for n = 0    *)
(* without reading src.                                                    *)
(***************************************************************************)
\* the bytes the claim's expression needs exist in src
NeededBytesExist ==
  LET by == probe.arg.bit \div 8
  IN  /\ by < Len(probe.arg.src)
      /\ (probe.arg.bit % 8) + probe.arg.count > 8 => by + 1 < Len(probe.arg.src)

\* the low n bits of the two bytes at the offset, shifted; a second byte
\* that does not exist cannot reach the low n bits and is taken as 0
ClaimedBits ==
  LET src == probe.arg.src
      by  == probe.arg.bit \div 8
      hi  == IF by + 1 < Len(src) THEN src[by + 2] ELSE 0
  IN  ((src[by + 1] + 256 * hi) \div (2 ^ (probe.arg.bit % 8))) % (2 ^ probe.arg.count)

C30_GetBits ==
  pc = "ret" =>
    /\ (probe.arg.count >= 1 /\ NeededBytesExist) =>
         /\ ~probe.out.panic
         /\ probe.out.v = ClaimedBits
         /\ ((probe.arg.bit \div 8) + 1 \in probe.out.reads)
              <=> ((probe.arg.bit % 8) + probe.arg.count > 8)
    /\ probe.arg.count = 0 =>
         ~probe.out.panic /\ probe.out.v = 0 /\ probe.out.reads = {}

====
